---- MODULE Spec2Model ----
(***************************************************************************)
(* A model of gadz: the single-connection manager of src/src/connection.ts *)
(* (nested transactions over savepoints), the document operations of       *)
(* src/src/operations.ts that run inside it, and the promoted-column       *)
(* synchroniser (createIndex).  The storage engine is SQLite; the model    *)
(* keeps the part of it the code relies on: one transaction at a time, a   *)
(* stack of named savepoints, statement-level errors, JSON_EXTRACT and the *)
(* comparison of storage classes.                                          *)
(***************************************************************************)
EXTENDS Integers, Sequences, FiniteSets, TLC

VARIABLES conn, eng, frames, last

vars == <<conn, eng, frames, last>>

(***************************************************************************)
(* Bounds of the model.                                                    *)
(***************************************************************************)
\* deepest nesting of withTransaction calls the caller makes
MaxDepth == 2
\* rows a table may ever receive (AUTOINCREMENT ids 1..MaxRows)
MaxRows == 2
\* savepoints the engine may hold at once (a savepoint rolled back to stays
\* on the stack until the transaction ends)
MaxSavepoints == 2
\* operations a callback makes inside one transaction, where the operations
\* of operations.ts are explored
MaxCalls == 1

(***************************************************************************)
(* Values.  A JavaScript value is a record [k, v]: k its type, v its text. *)
(* A document is a function from the keys it has to their values.          *)
(***************************************************************************)
Str(s) == [k |-> "string", v |-> s]
Num(s) == [k |-> "number", v |-> s]
Bool(s) == [k |-> "boolean", v |-> s]
\* null, and an array or an object by its JSON text
Nul == [k |-> "null", v |-> "null"]
Arr(s) == [k |-> "array", v |-> s]
Obj(s) == [k |-> "object", v |-> s]

\* the keys Object.entries(value) yields for the arrays and objects of the
\* model: [] and ["a"], {} and {"city":"x"}
EntryKeys(x) ==
  IF x.v \in {"[]", "{}"} THEN {}
  ELSE IF x.k = "array" THEN {"0"}
  ELSE IF x.k = "object" THEN {"city"}
  ELSE {}

\* SQL values by storage class
SqlNull == [c |-> "null", v |-> ""]
SqlInt(s) == [c |-> "integer", v |-> s]
SqlText(s) == [c |-> "text", v |-> s]

EmptyDoc == [f \in {} |-> Str("")]

\* { ...a, ...b }
Spread(a, b) ==
  [f \in (DOMAIN a) \cup (DOMAIN b) |-> IF f \in DOMAIN b THEN b[f] ELSE a[f]]

(***************************************************************************)
(* The storage engine.  A database is the table's schema and rows; the     *)
(* engine holds the committed database, the working one, whether a         *)
(* transaction is open, and the stack of savepoints with the database each *)
(* one saw.  DDL is transactional in SQLite, so a snapshot is the whole    *)
(* database.                                                               *)
(***************************************************************************)
EmptyRows == [i \in {} |-> [data |-> EmptyDoc, col |-> EmptyDoc]]

EmptyDb ==
  [exists |-> FALSE, rows |-> EmptyRows, seq |-> 0,
   cols |-> {}, uniq |-> {}, trigs |-> {}, idx |-> {}, uidx |-> {}]

\* new Database(dbPath): file tells a database file from ":memory:", closed
\* whether db.close() was called on the handle, refuse the statements that
\* the engine answers with an error for a reason outside the manager (a
\* COMMIT while another process holds the lock past busy_timeout or while a
\* deferred foreign key is violated): the transaction stays as it is
NewEngine ==
  [txn |-> FALSE, implicit |-> FALSE, committed |-> EmptyDb, cur |-> EmptyDb,
   sps |-> <<>>, file |-> TRUE, closed |-> FALSE, refuse |-> {}]

\* the most recent savepoint of that name, 0 when there is none
FindSp(sps, n) ==
  LET S == {i \in 1..Len(sps) : sps[i].name = n}
  IN IF S = {} THEN 0 ELSE CHOOSE i \in S : \A j \in S : j <= i

EngCommit(e) ==
  [e EXCEPT !.txn = FALSE, !.implicit = FALSE, !.committed = e.cur, !.sps = <<>>]

\* SQLite's transaction-control statements: the engine after the statement
\* and whether it succeeded (a failed statement changes nothing)
EngExec(e, k, n) ==
  CASE e.closed \/ k \in e.refuse -> [e |-> e, ok |-> FALSE]
    [] k = "BEGIN" ->
         IF e.txn THEN [e |-> e, ok |-> FALSE]
         ELSE [e |-> [e EXCEPT !.txn = TRUE], ok |-> TRUE]
    [] k = "COMMIT" ->
         IF ~e.txn THEN [e |-> e, ok |-> FALSE]
         ELSE [e |-> EngCommit(e), ok |-> TRUE]
    [] k = "ROLLBACK" ->
         IF ~e.txn THEN [e |-> e, ok |-> FALSE]
         ELSE [e |-> [e EXCEPT !.txn = FALSE, !.implicit = FALSE,
                               !.cur = e.committed, !.sps = <<>>],
               ok |-> TRUE]
    [] k = "SAVEPOINT" ->
         [e |-> [e EXCEPT !.txn = TRUE,
                          !.implicit = IF e.txn THEN e.implicit ELSE TRUE,
                          !.sps = Append(e.sps, [name |-> n, snap |-> e.cur])],
          ok |-> TRUE]
    [] k = "RELEASE" ->
         LET i == FindSp(e.sps, n)
         IN IF i = 0 THEN [e |-> e, ok |-> FALSE]
            ELSE IF i = 1 /\ e.implicit THEN [e |-> EngCommit(e), ok |-> TRUE]
            ELSE [e |-> [e EXCEPT !.sps = SubSeq(e.sps, 1, i - 1)], ok |-> TRUE]
    [] k = "ROLLBACK TO" ->
         LET i == FindSp(e.sps, n)
         IN IF i = 0 THEN [e |-> e, ok |-> FALSE]
            ELSE [e |-> [e EXCEPT !.cur = e.sps[i].snap,
                                  !.sps = SubSeq(e.sps, 1, i)],
                  ok |-> TRUE]

\* a data statement outside a transaction commits at once
AutoCommit(e, db) ==
  IF e.txn THEN [e EXCEPT !.cur = db] ELSE [e EXCEPT !.cur = db, !.committed = db]

(***************************************************************************)
(* The connection manager.  A run of manager code is threaded through a    *)
(* record m: the connection handle c, the engine e, the statements sent so *)
(* far (log, each with the depth counter at the moment it was sent), the   *)
(* error thrown (NoErr when none) and the value returned.                  *)
(***************************************************************************)
NoErr == ""
SqliteError == "SQLiteError"
NoActiveTransaction == "No active transaction"

NoRes == [matched |-> 0, modified |-> 0, upserted |-> 0]

NotConnected == [connected |-> FALSE, inTransaction |-> FALSE, transactionDepth |-> 0]

Start(c, e) == [c |-> c, e |-> e, log |-> <<>>, err |-> NoErr, res |-> NoRes]

Throw(m, error) == [m EXCEPT !.err = error]

\* connection.db.exec of a transaction-control statement
Exec(m, k, n) ==
  LET x == EngExec(m.e, k, n)
      entry == [k |-> k, n |-> n, d |-> m.c.transactionDepth, ok |-> x.ok]
  IN [m EXCEPT !.e = x.e, !.log = Append(m.log, entry),
               !.err = IF x.ok THEN NoErr ELSE SqliteError]

\* connect() as getConnection() runs it: a fresh handle
connect(m) ==
  [m EXCEPT !.c = [connected |-> TRUE, inTransaction |-> FALSE, transactionDepth |-> 0]]

getConnection(m) == IF ~m.c.connected THEN connect(m) ELSE m

\* beginTransaction without the savepoint branch
beginTransaction_AlwaysBegin(m) ==
  LET x == Exec(m, "BEGIN", 0)
  IN IF x.err # NoErr THEN x
     ELSE [x EXCEPT !.c.inTransaction = TRUE,
                    !.c.transactionDepth = m.c.transactionDepth + 1]

beginTransaction(m) ==
  IF m.c.transactionDepth = 0
  THEN LET x == Exec(m, "BEGIN", 0)
       IN IF x.err # NoErr THEN x
          ELSE [x EXCEPT !.c.inTransaction = TRUE,
                         !.c.transactionDepth = m.c.transactionDepth + 1]
  ELSE LET x == Exec(m, "SAVEPOINT", m.c.transactionDepth)
       IN IF x.err # NoErr THEN x
          ELSE [x EXCEPT !.c.transactionDepth = m.c.transactionDepth + 1]

\* commitTransaction without the check of the depth
commitTransaction_NoGuard(m) ==
  LET m1 == [m EXCEPT !.c.transactionDepth = m.c.transactionDepth - 1]
  IN IF m1.c.transactionDepth = 0
     THEN LET x == Exec(m1, "COMMIT", 0)
          IN IF x.err # NoErr THEN x ELSE [x EXCEPT !.c.inTransaction = FALSE]
     ELSE Exec(m1, "RELEASE", m1.c.transactionDepth)

commitTransaction(m) ==
  IF m.c.transactionDepth = 0 THEN Throw(m, NoActiveTransaction)
  ELSE LET m1 == [m EXCEPT !.c.transactionDepth = m.c.transactionDepth - 1]
       IN IF m1.c.transactionDepth = 0
          THEN LET x == Exec(m1, "COMMIT", 0)
               IN IF x.err # NoErr THEN x ELSE [x EXCEPT !.c.inTransaction = FALSE]
          ELSE Exec(m1, "RELEASE", m1.c.transactionDepth)

\* rollbackTransaction that rolls the whole transaction back at every depth
rollbackTransaction_Whole(m) ==
  IF m.c.transactionDepth = 0 THEN Throw(m, NoActiveTransaction)
  ELSE LET m1 == [m EXCEPT !.c.transactionDepth = m.c.transactionDepth - 1]
           x == Exec(m1, "ROLLBACK", 0)
       IN IF x.err # NoErr \/ m1.c.transactionDepth # 0 THEN x
          ELSE [x EXCEPT !.c.inTransaction = FALSE]

rollbackTransaction(m) ==
  IF m.c.transactionDepth = 0 THEN Throw(m, NoActiveTransaction)
  ELSE LET m1 == [m EXCEPT !.c.transactionDepth = m.c.transactionDepth - 1]
       IN IF m1.c.transactionDepth = 0
          THEN LET x == Exec(m1, "ROLLBACK", 0)
               IN IF x.err # NoErr THEN x ELSE [x EXCEPT !.c.inTransaction = FALSE]
          ELSE Exec(m1, "ROLLBACK TO", m1.c.transactionDepth)

\* a catch block that rolls back and does not rethrow
CatchRollback_Swallow(m) == rollbackTransaction([m EXCEPT !.err = NoErr])

\* the catch block of withTransaction: roll back, then rethrow the error caught
\* (an error thrown by the rollback itself replaces it)
CatchRollback(m) ==
  LET rb == rollbackTransaction([m EXCEPT !.err = NoErr])
  IN IF rb.err # NoErr THEN rb ELSE Throw(rb, m.err)

\* a withTransaction that commits whatever the callback did, then rethrows
FinishTransaction_CommitFirst(m) ==
  LET cm == commitTransaction([m EXCEPT !.err = NoErr])
  IN IF cm.err # NoErr THEN cm
     ELSE IF m.err # NoErr THEN Throw(cm, m.err)
     ELSE cm

\* the try block of withTransaction once fn has returned or thrown (m.err)
FinishTransaction(m) ==
  IF m.err # NoErr THEN CatchRollback(m)
  ELSE LET cm == commitTransaction(m)
       IN IF cm.err # NoErr THEN CatchRollback(cm) ELSE cm

\* withTransaction up to the call of fn: the connection, then beginTransaction
withTransactionEnter(m) == beginTransaction(getConnection(m))

\* withTransaction(fn) with a callback that runs without yielding: b is the
\* run as withTransactionEnter left it, r the run after fn(connection) when
\* fn was called on b (beginTransaction throwing, fn is not called)
withTransaction(b, r) == IF b.err # NoErr THEN b ELSE FinishTransaction(r)

\* withConnection(fn): the run fn is called in, whose outcome is the call's
withConnection(m) == getConnection(m)

\* the statements of runMaintenance, in the order they are sent
MaintenanceStatements ==
  <<"PRAGMA wal_checkpoint(PASSIVE)", "PRAGMA optimize", "PRAGMA incremental_vacuum">>

\* console.warn, kept in the log of the run
Warn == "console.warn"

\* runMaintenance that does not look at the transaction flag
runMaintenance_NoGuard(m, failing) ==
  IF ~m.c.connected \/ ~m.e.file THEN m
  ELSE LET sent == IF failing = 0 THEN Len(MaintenanceStatements) ELSE failing
           entries == [i \in 1..sent |->
                         [k |-> MaintenanceStatements[i], n |-> 0,
                          d |-> m.c.transactionDepth, ok |-> i # failing]]
           warned == IF failing = 0 THEN <<>>
                     ELSE <<[k |-> Warn, n |-> 0, d |-> m.c.transactionDepth, ok |-> TRUE]>>
       IN [m EXCEPT !.log = m.log \o entries \o warned]

\* runMaintenance; failing is the statement that throws (0: none does), the
\* statements after it are not sent and the catch block warns.  None of the
\* three changes the contents of the database.
runMaintenance(m, failing) ==
  IF ~m.c.connected \/ ~m.e.file THEN m
  ELSE IF m.c.inTransaction THEN m
  ELSE LET sent == IF failing = 0 THEN Len(MaintenanceStatements) ELSE failing
           entries == [i \in 1..sent |->
                         [k |-> MaintenanceStatements[i], n |-> 0,
                          d |-> m.c.transactionDepth, ok |-> i # failing]]
           warned == IF failing = 0 THEN <<>>
                     ELSE <<[k |-> Warn, n |-> 0, d |-> m.c.transactionDepth, ok |-> TRUE]>>
       IN [m EXCEPT !.log = m.log \o entries \o warned]

\* maintenance(), and the callback of the timer of startMaintenance (whose
\* own catch block has nothing to catch)
maintenance(m, failing) == runMaintenance(m, failing)

\* db.close(): what the next handle finds.  An open transaction is rolled
\* back; a database in memory is gone.
CloseDb(e) ==
  IF e.file
  THEN [e EXCEPT !.txn = FALSE, !.implicit = FALSE, !.cur = e.committed, !.sps = <<>>]
  ELSE [NewEngine EXCEPT !.file = FALSE]

\* a Database object after db.close(): every statement throws
ClosedHandle == [NewEngine EXCEPT !.closed = TRUE]

\* close() that closes the database and keeps this.connection
close_KeepHandle(m) ==
  IF ~m.c.connected THEN m
  ELSE LET r == IF m.c.inTransaction
                THEN [Exec(m, "ROLLBACK", 0) EXCEPT !.err = NoErr]
                ELSE m
       IN [r EXCEPT !.e = CloseDb(r.e)]

\* close() that commits a pending transaction instead of rolling it back
close_Commit(m) ==
  IF ~m.c.connected THEN m
  ELSE LET r == IF m.c.inTransaction
                THEN [Exec(m, "COMMIT", 0) EXCEPT !.err = NoErr]
                ELSE m
       IN [r EXCEPT !.c = NotConnected, !.e = CloseDb(r.e)]

\* close(): stopMaintenance, ROLLBACK of a pending transaction (errors
\* ignored), db.close(), this.connection = null
close(m) ==
  IF ~m.c.connected THEN m
  ELSE LET r == IF m.c.inTransaction
                THEN [Exec(m, "ROLLBACK", 0) EXCEPT !.err = NoErr]
                ELSE m
       IN [r EXCEPT !.c = NotConnected, !.e = CloseDb(r.e)]

\* getConnectionStatus() and isConnected()
Null == [null |-> TRUE]

getConnectionStatus(c) ==
  IF ~c.connected THEN Null
  ELSE [connected |-> TRUE, inTransaction |-> c.inTransaction,
        transactionDepth |-> c.transactionDepth]

isConnected(c) == c.connected

(***************************************************************************)
(* Documents in the table.  The body column holds JSON.stringify(doc): the *)
(* keys of the document with a JSON value each (a key whose value is       *)
(* undefined is dropped); JSON_EXTRACT turns a JSON value into an SQL one. *)
(* Key order and the timestamp columns are not modelled.                   *)
(***************************************************************************)
Undefined == [k |-> "undefined", v |-> ""]

Stringify(obj) == [f \in {g \in DOMAIN obj : obj[g].k # "undefined"} |-> obj[f]]

Parse(text) == text

\* JSON_EXTRACT(data, '$.f'): NULL for a missing key, TEXT for a string,
\* INTEGER for a number and for true (1) and false (0)
JsonExtract(data, f) ==
  IF f \notin DOMAIN data THEN SqlNull
  ELSE IF data[f].k = "string" THEN SqlText(data[f].v)
  ELSE IF data[f].k = "null" THEN SqlNull
  ELSE IF data[f].k \in {"array", "object"} THEN SqlText(data[f].v)
  ELSE SqlInt(data[f].v)

\* x = y in SQL: values of different storage classes are never equal, and a
\* comparison with NULL is not true
SqlEq(x, y) == x.c # "null" /\ y.c # "null" /\ x = y

SqlNe(x, y) == x.c # "null" /\ y.c # "null" /\ x # y

\* the numbers the model's texts denote; CAST(x AS REAL) of any other text is 0
Digits == [t \in {"0", "1", "2"} |-> CASE t = "0" -> 0 [] t = "1" -> 1 [] t = "2" -> 2]

CastReal(x) == IF x.v \in DOMAIN Digits THEN Digits[x.v] ELSE 0

IdText(i) == CHOOSE t \in DOMAIN Digits : Digits[t] = i

\* a promoted column is declared TEXT: a number stored in it becomes text
TextAffinity(x) == IF x.c = "integer" THEN SqlText(x.v) ELSE x

\* the triggers of a table are records: kind, the column, the event, the expression
Trigger(kind, p, on) == [kind |-> kind, p |-> p, on |-> on, expr |-> ""]

\* the columns that an AFTER trigger of the event keeps equal to the body
Synced(db, on) == {p \in db.cols : Trigger("sync", p, on) \in db.trigs}

\* INSERT INTO t (data) VALUES (?) with its AFTER INSERT triggers
InsertRow(db, data) ==
  LET id == db.seq + 1
      row == [data |-> data,
              col |-> [p \in db.cols |->
                         IF p \in Synced(db, "insert")
                         THEN TextAffinity(JsonExtract(data, p))
                         ELSE SqlNull]]
  IN [db EXCEPT !.seq = id,
                !.rows = [i \in (DOMAIN db.rows) \cup {id} |->
                            IF i = id THEN row ELSE db.rows[i]]]

\* UPDATE t SET data = ? WHERE id = ? with its AFTER UPDATE triggers
UpdateRow(db, id, data) ==
  [db EXCEPT !.rows[id] =
     [data |-> data,
      col |-> [p \in db.cols |->
                 IF p \in Synced(db, "update")
                 THEN TextAffinity(JsonExtract(data, p))
                 ELSE db.rows[id].col[p]]]]

DeleteRows(db, ids) ==
  [db EXCEPT !.rows = [i \in (DOMAIN db.rows) \ ids |-> db.rows[i]]]

\* a data or schema statement sent to the engine, that succeeds with database db
Run(m, k, db) ==
  [m EXCEPT !.e = AutoCommit(m.e, db),
            !.log = Append(m.log, [k |-> k, n |-> 0, d |-> m.c.transactionDepth,
                                   ok |-> TRUE])]

\* a statement that fails: it is sent, changes nothing and throws
RunFails(m, k) ==
  [m EXCEPT !.err = SqliteError,
            !.log = Append(m.log, [k |-> k, n |-> 0, d |-> m.c.transactionDepth,
                                   ok |-> FALSE])]

CheckViolated == "Check constraint violated"
UniqueViolated == "UNIQUE constraint failed"

\* a statement that a trigger or a constraint aborts: it changes nothing
RunAborts(m, k, error) ==
  [m EXCEPT !.err = error,
            !.log = Append(m.log, [k |-> k, n |-> 0, d |-> m.c.transactionDepth,
                                   ok |-> FALSE])]

\* The check expressions of the model are  p != 'v' : the expr of a check
\* trigger is v.  WHEN NOT (NEW.p != 'v') holds when NEW.p is the text v;
\* with NEW.p NULL the condition is NULL and the trigger does not fire.
CheckFires(t, x) == t.kind = "check" /\ x = SqlText(t.expr)

\* whether the BEFORE UPDATE check triggers abort an UPDATE of a row whose
\* promoted columns are col
UpdateChecksFire(db, col) ==
  \E t \in db.trigs : t.on = "update" /\ t.p \in DOMAIN col /\ CheckFires(t, col[t.p])

\* whether a row with these promoted columns repeats a value of a UNIQUE column
UniqueClash(db, id, col) ==
  \E p \in db.uniq \cap DOMAIN col :
    /\ col[p] # SqlNull
    /\ \E j \in DOMAIN db.rows \ {id} : db.rows[j].col[p] = col[p]

\* INSERT INTO t (data) VALUES (?): the BEFORE INSERT check triggers see NULL
\* in every promoted column; the AFTER INSERT sync triggers then UPDATE the
\* row, under the BEFORE UPDATE check triggers and the UNIQUE columns
ExecInsert(m, data) ==
  LET db == m.e.cur
      new == InsertRow(db, data)
      col == new.rows[new.seq].col
  IN IF \E t \in db.trigs : t.on = "insert" /\ CheckFires(t, SqlNull)
     THEN RunAborts(m, "INSERT", CheckViolated)
     ELSE IF Synced(db, "insert") # {} /\ UpdateChecksFire(db, col)
     THEN RunAborts(m, "INSERT", CheckViolated)
     ELSE IF UniqueClash(db, new.seq, col)
     THEN RunAborts(m, "INSERT", UniqueViolated)
     ELSE Run(m, "INSERT", new)

\* UPDATE t SET data = ? WHERE id = ?: the BEFORE UPDATE check triggers see
\* the promoted columns as they are, then again as the AFTER UPDATE sync
\* triggers set them
ExecUpdate(m, id, data) ==
  LET db == m.e.cur
      new == UpdateRow(db, id, data)
      col == new.rows[id].col
  IN IF UpdateChecksFire(db, db.rows[id].col)
     THEN RunAborts(m, "UPDATE", CheckViolated)
     ELSE IF Synced(db, "update") # {} /\ UpdateChecksFire(db, col)
     THEN RunAborts(m, "UPDATE", CheckViolated)
     ELSE IF UniqueClash(db, id, col)
     THEN RunAborts(m, "UPDATE", UniqueViolated)
     ELSE Run(m, "UPDATE", new)

(***************************************************************************)
(* The filter compiler of operations.ts.  A filter maps a key to an entry  *)
(* [op, k, v]: op = "" for a literal [k, v], otherwise an operator object  *)
(* with the single operator op and operand [k, v].  The compiled clause is *)
(* the set of its conditions (joined by AND).                              *)
(***************************************************************************)
Lit(val) == [op |-> "", k |-> val.k, v |-> val.v]
Op(op, val) == [op |-> op, k |-> val.k, v |-> val.v]

EmptyFilter == [f \in {} |-> Lit(Str(""))]

UnsupportedOperator == "Unsupported operator"

SupportedOps == {"$eq", "$ne", "$gt", "$gte", "$lt", "$lte", "$in", "$nin", "$exists"}

\* the parameter bound for a literal or a $eq / $ne operand
EqParam(x) ==
  IF x.k = "boolean" THEN SqlInt(x.v)
  ELSE IF x.k = "string" THEN SqlText(x.v)
  ELSE SqlText(x.v)

\* the parameter bound for a $gt / $gte / $lt / $lte operand (the raw value)
RawParam(x) == IF x.k = "string" THEN SqlText(x.v) ELSE SqlInt(x.v)

\* the condition of one filter entry; the id column has INTEGER affinity, so
\* its parameter is compared as a number
Condition(key, x) ==
  IF key = "id" THEN [on |-> "id", f |-> key, cmp |-> "=", param |-> SqlInt(x.v)]
  ELSE IF x.op = "" \/ x.op = "$eq"
       THEN [on |-> "data", f |-> key, cmp |-> "=", param |-> EqParam(x)]
  ELSE IF x.op = "$ne"
       THEN [on |-> "data", f |-> key, cmp |-> "!=", param |-> EqParam(x)]
  ELSE IF x.op = "$exists"
       THEN [on |-> "data", f |-> key,
             cmp |-> IF x.k = "boolean" /\ x.v = "1" THEN "IS NOT NULL" ELSE "IS NULL",
             param |-> SqlNull]
  ELSE [on |-> "data", f |-> key, cmp |-> x.op, param |-> RawParam(x)]

\* typeof value === "object" && value !== null: an operator object, and also
\* a literal that is an array or an object
IsObject(x) == x.op # "" \/ x.k \in {"array", "object"}

\* the keys the loop over Object.entries(value) takes for operators
OperatorsOf(x) == IF x.op # "" THEN {x.op} ELSE EntryKeys(x)

\* buildWhereClause(filter): the error thrown and the operator it names, or
\* the conditions.  The operands of the operators of the model are no
\* arrays, and $in / $nin with an operand that is no array add no condition.
buildWhereClause(filter) ==
  LET bad == {o \in UNION {OperatorsOf(filter[key]) :
                              key \in {g \in DOMAIN filter : g # "id" /\ IsObject(filter[g])}} :
                o \notin SupportedOps}
  IN IF bad # {}
     THEN [err |-> UnsupportedOperator, key |-> CHOOSE o \in bad : TRUE, conds |-> {}]
     ELSE [err |-> NoErr, key |-> "",
           conds |-> {Condition(key, filter[key]) :
                        key \in {g \in DOMAIN filter :
                                   \/ g = "id"
                                   \/ /\ filter[g].op \notin {"$in", "$nin"}
                                      /\ ~(filter[g].op = "" /\ IsObject(filter[g]))}}]

\* CAST(x AS REAL) cmp ?: a number is less than any text
RealCmp(x, cmp, param) ==
  IF x.c = "null" \/ param.c = "null" THEN FALSE
  ELSE IF param.c = "text" THEN cmp \in {"$lt", "$lte"}
  ELSE CASE cmp = "$gt" -> CastReal(x) > CastReal(param)
         [] cmp = "$gte" -> CastReal(x) >= CastReal(param)
         [] cmp = "$lt" -> CastReal(x) < CastReal(param)
         [] cmp = "$lte" -> CastReal(x) <= CastReal(param)

\* whether the engine finds the condition true of row id
Holds(db, id, cond) ==
  IF cond.on = "id" THEN SqlEq(SqlInt(IdText(id)), cond.param)
  ELSE LET x == JsonExtract(db.rows[id].data, cond.f)
       IN CASE cond.cmp = "=" -> SqlEq(x, cond.param)
            [] cond.cmp = "!=" -> SqlNe(x, cond.param)
            [] cond.cmp = "IS NOT NULL" -> x.c # "null"
            [] cond.cmp = "IS NULL" -> x.c = "null"
            [] OTHER -> RealCmp(x, cond.cmp, cond.param)

\* SELECT id ... WHERE conds: the ids of the rows selected
Select(db, conds) == {id \in DOMAIN db.rows : \A cond \in conds : Holds(db, id, cond)}

(***************************************************************************)
(* The operations of table-utils.ts and operations.ts.                     *)
(***************************************************************************)
MissingSet == "updateMany requires $set operator"
DeleteNeedsFilter == "deleteMany requires a filter"

\* ensureTable(tableName): CREATE TABLE / CREATE TRIGGER IF NOT EXISTS
ensureTableBody(m) ==
  LET db1 == [m.e.cur EXCEPT !.exists = TRUE]
      m1 == Run(m, "CREATE TABLE", db1)
      db2 == [db1 EXCEPT !.trigs = @ \cup {Trigger("updated_at", "", "update")}]
  IN Run(m1, "CREATE TRIGGER", db2)

ensureTable(m) == ensureTableBody(withConnection(m))

\* the documents an update object can be: $set is a sequence holding the
\* object given, empty when the update has no $set
HasSet(update) == update.set # <<>>

\* the loop of updateMany over the rows selected: one UPDATE per row
RECURSIVE UpdateEach(_, _, _)
UpdateEach(m, ids, set) ==
  IF ids = {} THEN m
  ELSE LET id == CHOOSE i \in ids : \A j \in ids : i <= j
           parsedData == Parse(m.e.cur.rows[id].data)
           updatedData == Spread(parsedData, set)
           m1 == ExecUpdate(m, id, Stringify(updatedData))
       IN IF m1.err # NoErr THEN m1 ELSE UpdateEach(m1, ids \ {id}, set)

\* the callback updateMany passes to withTransaction
updateManyBody(m, filter, update, upsert) ==
  LET w == buildWhereClause(filter)
  IN IF w.err # NoErr THEN Throw(m, w.err)
     ELSE LET existingDocs == Select(m.e.cur, w.conds)
              m1 == Run(m, "SELECT", m.e.cur)
          IN IF existingDocs # {}
             THEN LET m2 == UpdateEach(m1, existingDocs, update.set[1])
                  IN IF m2.err # NoErr THEN m2 ELSE
                     [m2 EXCEPT !.res = [matched |-> Cardinality(existingDocs),
                                         modified |-> Cardinality(existingDocs),
                                         upserted |-> 0]]
             ELSE IF upsert
             THEN LET newDoc == update.set[1]
                      m2 == ExecInsert(m1, Stringify(newDoc))
                  IN IF m2.err # NoErr THEN m2 ELSE
                     [m2 EXCEPT !.res = [matched |-> 0, modified |-> 0,
                                         upserted |-> m2.e.cur.seq]]
             ELSE [m1 EXCEPT !.res = NoRes]

\* updateMany that looks for $set only once the table has been ensured
updateMany_CheckAfterEnsure(m, filter, update, upsert) ==
  LET b == withTransactionEnter(ensureTable(m))
  IN IF ~HasSet(update) THEN Throw(ensureTable(m), MissingSet)
     ELSE withTransaction(b, updateManyBody(b, filter, update, upsert))

updateMany(m, filter, update, upsert) ==
  IF ~HasSet(update) THEN Throw(m, MissingSet)
  ELSE LET b == withTransactionEnter(ensureTable(m))
       IN withTransaction(b, updateManyBody(b, filter, update, upsert))

\* validateDocument(document) throws
ValidationFailed == "Validation failed"

\* INSERT INTO t (id, data) VALUES (?, ?) ON CONFLICT(id) DO UPDATE SET
\* data = excluded.data: the row of that id is rewritten, or a row is
\* inserted under that id
ExecUpsert(m, id, data) ==
  IF id \in DOMAIN m.e.cur.rows THEN ExecUpdate(m, id, data)
  ELSE LET db == m.e.cur
           at == InsertRow([db EXCEPT !.seq = id - 1], data)
           new == [at EXCEPT !.seq = IF db.seq > id THEN db.seq ELSE id]
           col == new.rows[id].col
       IN IF \E t \in db.trigs : t.on = "insert" /\ CheckFires(t, SqlNull)
          THEN RunAborts(m, "INSERT", CheckViolated)
          ELSE IF Synced(db, "insert") # {} /\ UpdateChecksFire(db, col)
          THEN RunAborts(m, "INSERT", CheckViolated)
          ELSE IF UniqueClash(db, id, col)
          THEN RunAborts(m, "INSERT", UniqueViolated)
          ELSE Run(m, "INSERT", new)

\* the loop of saveMany: validateDocument, then the upsert (document with an
\* id, 0 standing for none) or the insert
RECURSIVE SaveEach(_, _)
SaveEach(m, flatDocs) ==
  IF flatDocs = <<>> THEN m
  ELSE LET document == Head(flatDocs)
           docData == Stringify(document.doc)
       IN IF ~document.valid THEN Throw(m, ValidationFailed)
          ELSE LET m1 == IF document.id # 0
                         THEN ExecUpsert(m, document.id, docData)
                         ELSE ExecInsert(m, docData)
               IN IF m1.err # NoErr THEN m1 ELSE SaveEach(m1, Tail(flatDocs))

\* saveMany that sends its statements outside of a transaction
saveMany_NoTransaction(m, flatDocs) ==
  IF flatDocs = <<>> THEN m
  ELSE SaveEach(ensureTable(m), flatDocs)

saveMany(m, flatDocs) ==
  IF flatDocs = <<>> THEN m
  ELSE LET b == withTransactionEnter(ensureTable(m))
       IN withTransaction(b, SaveEach(b, flatDocs))

\* the callback find passes to withConnection
findBody(m, filter) ==
  LET w == buildWhereClause(filter)
  IN IF w.err # NoErr THEN Throw(m, w.err) ELSE Run(m, "SELECT", m.e.cur)

find(m, filter) ==
  findBody(withConnection(ensureTable(m)), filter)

\* the callback of deleteMany and of deleteOne (whose message for an empty
\* clause names deleteOne): the rows of ids are the ones the DELETE removes
deleteBody(m, filter, ids) ==
  LET w == buildWhereClause(filter)
  IN IF w.err # NoErr THEN Throw(m, w.err)
     ELSE IF w.conds = {} THEN Throw(m, DeleteNeedsFilter)
     ELSE LET m1 == Run(m, "DELETE", DeleteRows(m.e.cur, ids))
          IN [m1 EXCEPT !.res.modified = Cardinality(ids)]

deleteMany(m, filter) ==
  LET w == buildWhereClause(filter)
      b == withTransactionEnter(ensureTable(m))
  IN withTransaction(b, deleteBody(b, filter, Select(b.e.cur, w.conds)))

\* deleteOne: DELETE ... LIMIT 1 removes one of the rows selected, no order given
deleteOne(m, filter, pick) ==
  LET w == buildWhereClause(filter)
      b == withConnection(ensureTable(m))
  IN deleteBody(b, filter, Select(b.e.cur, w.conds) \cap {pick})

(***************************************************************************)
(* Promotion of a path to a column: createIndex.  It runs on the database  *)
(* handle itself, each statement committing at once.                       *)
(***************************************************************************)
UniqueMultiField == "Unique constraint can only be applied to single fields"

\* ensureTable of utils: CREATE TABLE IF NOT EXISTS
ensureTableUtils(m) == Run(m, "CREATE TABLE", [m.e.cur EXCEPT !.exists = TRUE])

\* ALTER TABLE t ADD COLUMN p TEXT: the rows there are have NULL in it
AddColumn(db, p) ==
  [db EXCEPT !.cols = @ \cup {p},
             !.rows = [i \in DOMAIN db.rows |->
                         [db.rows[i] EXCEPT !.col =
                            [q \in db.cols \cup {p} |->
                               IF q \in db.cols THEN db.rows[i].col[q] ELSE SqlNull]]]]

\* sync triggers created under a name of their own each time, which the DROP
\* of the plain name does not find
SyncTriggers_Suffixed(db, p) ==
  [db EXCEPT !.trigs = @ \cup
     {[Trigger("sync", p, on) EXCEPT !.expr = ToString(Cardinality(db.trigs))] :
        on \in {"insert", "update"}}]

\* DROP TRIGGER IF EXISTS sync_t_p_insert / _update, then CREATE TRIGGER both
SyncTriggers(db, p) ==
  [db EXCEPT !.trigs =
     (@ \ {Trigger("sync", p, "insert"), Trigger("sync", p, "update")})
       \cup {Trigger("sync", p, "insert"), Trigger("sync", p, "update")}]

\* UPDATE t SET p = JSON_EXTRACT(data, '$.p'): every row, and the AFTER UPDATE
\* triggers of the table with it
BackfillRows(db, p) ==
  [db EXCEPT !.rows =
     [i \in DOMAIN db.rows |->
        [db.rows[i] EXCEPT !.col =
           [q \in db.cols |->
              IF q = p \/ q \in Synced(db, "update")
              THEN TextAffinity(JsonExtract(db.rows[i].data, q))
              ELSE db.rows[i].col[q]]]]]

\* the backfill inside its try / catch: a BEFORE UPDATE check trigger that
\* fires on one row aborts the whole UPDATE, and the error is ignored
Backfill(db, p) ==
  LET new == BackfillRows(db, p)
      first(i) == [q \in db.cols |->
                     IF q = p THEN new.rows[i].col[q] ELSE db.rows[i].col[q]]
  IN IF \E i \in DOMAIN db.rows :
          UpdateChecksFire(db, first(i)) \/ UpdateChecksFire(db, new.rows[i].col)
     THEN db
     ELSE new

\* the field is used as the column name as it is: a path with a dot in it
\* makes ALTER TABLE ... ADD COLUMN a syntax error
InvalidColumns == {"profile.age"}

\* the body of the loop over the fields: unique is the UNIQUE clause, which
\* only a single field gets; SQLite refuses to add a UNIQUE column
PromoteField(m, p, unique) ==
  LET m0 == Run(m, "PRAGMA", m.e.cur)
      columnExists == p \in m0.e.cur.cols
      m1 == IF columnExists THEN m0
            ELSE IF unique \/ p \in InvalidColumns THEN RunFails(m0, "ALTER TABLE")
            ELSE Run(m0, "ALTER TABLE", AddColumn(m0.e.cur, p))
  IN IF m1.err # NoErr THEN m1
     ELSE LET m2 == Run(m1, "CREATE TRIGGER", SyncTriggers(m1.e.cur, p))
          IN Run(m2, "UPDATE", Backfill(m2.e.cur, p))

RECURSIVE PromoteEach(_, _, _, _)
PromoteEach(m, fieldList, i, unique) ==
  IF i > Len(fieldList) \/ m.err # NoErr THEN m
  ELSE PromoteEach(PromoteField(m, fieldList[i], unique), fieldList, i + 1, unique)

\* createIndex that looks at the number of fields only after the loop
createIndex_CheckAfterLoop(m, fieldList, unique) ==
  LET m0 == ensureTableUtils(m)
      m1 == PromoteEach(m0, fieldList, 1, unique /\ Len(fieldList) = 1)
  IN IF m1.err # NoErr THEN m1
     ELSE IF unique /\ Len(fieldList) > 1 THEN Throw(m1, UniqueMultiField)
     ELSE IF unique THEN m1
     ELSE Run(m1, "CREATE INDEX", [m1.e.cur EXCEPT !.idx = @ \cup {fieldList}])

\* createIndex(fields, {unique}): fieldList is fields split on the commas
createIndex(m, fieldList, unique) ==
  LET m0 == ensureTableUtils(m)
  IN IF unique /\ Len(fieldList) > 1 THEN Throw(m0, UniqueMultiField)
     ELSE LET m1 == PromoteEach(m0, fieldList, 1, unique /\ Len(fieldList) = 1)
          IN IF m1.err # NoErr \/ unique THEN m1
             ELSE Run(m1, "CREATE INDEX", [m1.e.cur EXCEPT !.idx = @ \cup {fieldList}])

\* the check triggers of a path: their names start with check_<table>_<p>_
CheckTriggers(db, p) == {t \in db.trigs : t.kind = "check" /\ t.p = p}

\* checkConstraint(field, constraint): the column and its sync triggers as
\* createIndex makes them, then every check trigger of the field is dropped
\* and a BEFORE INSERT and a BEFORE UPDATE trigger are created for the
\* constraint.  Their name ends in a random number, which nothing reads.
checkConstraint(m, field, constraint) ==
  LET e0 == ensureTableUtils(m)
      m0 == Run(e0, "PRAGMA", e0.e.cur)
      columnExists == field \in m0.e.cur.cols
      m1 == IF columnExists THEN m0
            ELSE Run(m0, "ALTER TABLE", AddColumn(m0.e.cur, field))
      m2 == Run(m1, "CREATE TRIGGER", SyncTriggers(m1.e.cur, field))
      m3 == Run(m2, "UPDATE", Backfill(m2.e.cur, field))
      m4 == Run(m3, "DROP TRIGGER",
                [m3.e.cur EXCEPT !.trigs = @ \ CheckTriggers(m3.e.cur, field)])
  IN Run(m4, "CREATE TRIGGER",
         [m4.e.cur EXCEPT !.trigs = @ \cup
            {[Trigger("check", field, on) EXCEPT !.expr = constraint] :
               on \in {"insert", "update"}}])

(***************************************************************************)
(* The state machine.  conn is the manager's connection handle, eng the    *)
(* engine behind it, frames the withTransaction calls of the caller that   *)
(* are in progress (innermost last; each remembers the database it found   *)
(* on entry, how many rows its callback wrote and how many were written by *)
(* nested levels that were rolled back), and last the most                 *)
(* recent call: its name and arguments, the depth before it, the           *)
(* statements it sent, the error it threw and its result.                  *)
(***************************************************************************)
UserError == "callback failed"

NoUpdate == [set |-> <<>>]
SetOf(doc) == [set |-> <<doc>>]

Pending == [f \in {"status"} |-> Str("pending")]
DoneAged == [f \in {"status", "age"} |-> IF f = "status" THEN Str("done") ELSE Num("1")]

InputDocs == {Pending, DoneAged}

Filters ==
  {EmptyFilter,
   [f \in {"status"} |-> Lit(Str("pending"))],
   [f \in {"age"} |-> Lit(Num("1"))],
   [f \in {"status"} |-> Op("$ne", Str("done"))],
   [f \in {"age"} |-> Op("$gt", Num("0"))],
   [f \in {"status"} |-> Op("$regex", Str("^p"))]}

Updates == {NoUpdate, SetOf([f \in {"status"} |-> Str("done")])}

\* the arguments of a call that takes none of them
NoArgs ==
  [filter |-> EmptyFilter, update |-> NoUpdate, upsert |-> FALSE,
   fields |-> <<>>, unique |-> FALSE]

\* what the caller has asked for so far: the paths it promoted with unique:
\* true without an error, and the check constraints it registered
NoHist == [unique |-> {}, checks |-> {}]

\* the record of a call: wrote is the number of rows the callback that ended
\* had inserted, undone the number of rows that nested levels it had rolled
\* back had inserted, again whether the call repeats the one before it, hist
\* what the caller has asked for up to and including this call
CallRecord(op, d0, m, hist) ==
  [op |-> op, d0 |-> d0, err |-> m.err, log |-> m.log, res |-> m.res,
   args |-> NoArgs, wrote |-> 0, undone |-> 0, again |-> FALSE, hist |-> hist]

Call(op, d0, m) == CallRecord(op, d0, m, last.hist)

CallWith(op, d0, m, filter, update, upsert) ==
  [Call(op, d0, m) EXCEPT !.args.filter = filter, !.args.update = update,
                          !.args.upsert = upsert]

Init ==
  /\ conn = NotConnected
  /\ eng = NewEngine
  /\ frames = <<>>
  /\ last = CallRecord("init", 0, Start(NotConnected, NewEngine), NoHist)

\* the caller calls withTransaction(fn): the connection, then beginTransaction
Enter ==
  /\ Len(frames) < MaxDepth
  /\ Len(eng.sps) < MaxSavepoints
  /\ LET m == withTransactionEnter(Start(conn, eng))
     IN /\ conn' = m.c
        /\ eng' = m.e
        /\ frames' = IF m.err # NoErr THEN frames
                     ELSE Append(frames, [snap |-> eng.cur, wrote |-> 0, calls |-> 0,
                                          undone |-> 0, closed |-> 0, h |-> m.c])
        /\ last' = Call("enter", conn.transactionDepth, m)

\* withTransaction called while no call is in progress
EnterOuter == frames = <<>> /\ Enter

\* the innermost callback returns: commitTransaction, and the catch block
\* when that throws
Return ==
  /\ frames # <<>>
  /\ frames[Len(frames)].closed = 0
  /\ LET m == FinishTransaction(Start(conn, eng))
     IN /\ conn' = m.c
        /\ eng' = m.e
        /\ frames' = SubSeq(frames, 1, Len(frames) - 1)
        /\ last' = [Call("return", conn.transactionDepth, m)
                     EXCEPT !.wrote = frames[Len(frames)].wrote,
                            !.undone = frames[Len(frames)].undone]

\* the innermost callback throws: the catch block
Fail ==
  /\ frames # <<>>
  /\ frames[Len(frames)].closed = 0
  /\ LET m == FinishTransaction(Throw(Start(conn, eng), UserError))
     IN /\ conn' = m.c
        /\ eng' = m.e
        /\ frames' = LET d == Len(frames)
                     IN IF d = 1 THEN <<>>
                        ELSE IF frames[d - 1].closed > 0 THEN SubSeq(frames, 1, d - 1)
                        ELSE [SubSeq(frames, 1, d - 1)
                                EXCEPT ![d - 1].undone = @ + frames[d].wrote]
        /\ last' = [Call("fail", conn.transactionDepth, m)
                     EXCEPT !.wrote = frames[Len(frames)].wrote]

\* a statement through connection.db: inside the innermost callback, or
\* through raw() when no transaction is in progress
RawInsert(doc) ==
  /\ eng.cur.exists
  /\ eng.cur.seq < MaxRows
  /\ LET b == withConnection(Start(conn, eng))
         m == ExecInsert(b, Stringify(doc))
     IN /\ conn' = m.c
        /\ eng' = m.e
        /\ frames' = IF frames = <<>> THEN frames
                     ELSE [frames EXCEPT
                             ![Len(frames)].wrote = @ + (IF m.err = NoErr THEN 1 ELSE 0),
                             ![Len(frames)].calls = @ + 1]
        /\ last' = Call("insert", conn.transactionDepth, m)

\* UPDATE t SET data = ? WHERE id = ? through connection.db
RawUpdate(id, doc) ==
  /\ id \in DOMAIN eng.cur.rows
  /\ eng.cur.rows[id].data # Stringify(doc)
  /\ LET b == withConnection(Start(conn, eng))
         m == ExecUpdate(b, id, Stringify(doc))
     IN /\ conn' = m.c
        /\ eng' = m.e
        /\ last' = Call("update", conn.transactionDepth, m)
        /\ UNCHANGED frames

\* commitTransaction / rollbackTransaction called on the connection while no
\* withTransaction call is in progress
DirectCommit ==
  /\ frames = <<>>
  /\ LET m == commitTransaction(getConnection(Start(conn, eng)))
     IN /\ conn' = m.c
        /\ eng' = m.e
        /\ last' = Call("commit", conn.transactionDepth, m)
        /\ UNCHANGED frames

DirectRollback ==
  /\ frames = <<>>
  /\ LET m == rollbackTransaction(getConnection(Start(conn, eng)))
     IN /\ conn' = m.c
        /\ eng' = m.e
        /\ last' = Call("rollback", conn.transactionDepth, m)
        /\ UNCHANGED frames

EnsureTable ==
  LET m == ensureTable(Start(conn, eng))
  IN /\ conn' = m.c
     /\ eng' = m.e
     /\ last' = Call("ensureTable", conn.transactionDepth, m)
     /\ UNCHANGED frames

\* an operation of operations.ts, from the top level or from inside the
\* callback of the transaction in progress
CanCall == IF frames = <<>> THEN TRUE ELSE frames[Len(frames)].calls < MaxCalls

Called ==
  frames' = IF frames = <<>> THEN frames
            ELSE [frames EXCEPT ![Len(frames)].calls = @ + 1]

RawInsertOps(doc) == CanCall /\ RawInsert(doc)

UpdateMany(filter, update, upsert) ==
  /\ CanCall
  /\ upsert => eng.cur.seq < MaxRows
  /\ Len(eng.sps) < MaxSavepoints
  /\ LET m == updateMany(Start(conn, eng), filter, update, upsert)
     IN /\ conn' = m.c
        /\ eng' = m.e
        /\ last' = CallWith("updateMany", conn.transactionDepth, m,
                          filter, update, upsert)
        /\ Called

Find(filter) ==
  LET m == find(Start(conn, eng), filter)
  IN /\ CanCall
     /\ conn' = m.c
     /\ eng' = m.e
     /\ last' = CallWith("find", conn.transactionDepth, m, filter, NoUpdate, FALSE)
     /\ Called

DeleteMany(filter) ==
  LET m == deleteMany(Start(conn, eng), filter)
  IN /\ CanCall
     /\ Len(eng.sps) < MaxSavepoints
     /\ conn' = m.c
     /\ eng' = m.e
     /\ last' = CallWith("deleteMany", conn.transactionDepth, m,
                       filter, NoUpdate, FALSE)
     /\ Called

DeleteOne(filter) ==
  \E pick \in 1..MaxRows :
    /\ CanCall
    /\ LET w == buildWhereClause(filter)
           sel == Select(eng.cur, w.conds)
       IN IF sel = {} THEN pick = 1 ELSE pick \in sel
    /\ LET m == deleteOne(Start(conn, eng), filter, pick)
       IN /\ conn' = m.c
          /\ eng' = m.e
          /\ last' = CallWith("deleteOne", conn.transactionDepth, m,
                            filter, NoUpdate, FALSE)
          /\ Called

\* the field lists createIndex is called with
IndexFields == {<<"status">>, <<"age">>, <<"status", "age">>, <<"status", "profile.age">>}

\* createIndex from the top level
CreateIndex(fieldList, unique) ==
  /\ frames = <<>>
  /\ LET m == createIndex(Start(conn, eng), fieldList, unique)
     IN /\ conn' = m.c
        /\ eng' = m.e
        /\ last' = [Call("createIndex", conn.transactionDepth, m)
                     EXCEPT !.args.fields = fieldList,
                            !.args.unique = unique,
                            !.again = /\ last.op = "createIndex"
                                      /\ last.args.fields = fieldList
                                      /\ last.args.unique = unique,
                            !.hist.unique =
                               IF unique /\ m.err = NoErr
                               THEN @ \cup {fieldList[i] : i \in 1..Len(fieldList)}
                               ELSE @]
        /\ UNCHANGED frames

\* the constraints checkConstraint is called with: status != 'done' and
\* status != 'pending', each given by the value it forbids
CheckFields == {"status"}
CheckExprs == {"done", "pending"}

\* checkConstraint from the top level
CheckConstraint(field, constraint) ==
  /\ frames = <<>>
  /\ LET m == checkConstraint(Start(conn, eng), field, constraint)
     IN /\ conn' = m.c
        /\ eng' = m.e
        /\ last' = [Call("checkConstraint", conn.transactionDepth, m)
                     EXCEPT !.args.fields = <<field>>,
                            !.hist.checks =
                              IF m.err = NoErr
                              THEN @ \cup {[p |-> field, expr |-> constraint]}
                              ELSE @]
        /\ UNCHANGED frames

\* the transaction manager under one caller: nested withTransaction calls with
\* statements inside them
Next ==
  \/ Enter
  \/ Return
  \/ Fail
  \/ \E doc \in InputDocs : RawInsert(doc)
  \/ DirectCommit
  \/ DirectRollback
  \/ EnsureTable

Spec == Init /\ [][Next]_vars

\* the engine while it refuses to end a transaction or a savepoint
Refusing(e) == [e EXCEPT !.refuse = {"COMMIT", "RELEASE"}]

\* the innermost callback returns and the engine refuses the COMMIT or the
\* RELEASE of commitTransaction: the catch block runs
ReturnRefused ==
  /\ frames # <<>>
  /\ frames[Len(frames)].closed = 0
  /\ LET m == FinishTransaction(Start(conn, Refusing(eng)))
     IN /\ conn' = m.c
        /\ eng' = [m.e EXCEPT !.refuse = {}]
        /\ frames' = SubSeq(frames, 1, Len(frames) - 1)
        /\ last' = [Call("return", conn.transactionDepth, m)
                     EXCEPT !.wrote = frames[Len(frames)].wrote,
                            !.undone = frames[Len(frames)].undone]

\* a statement through raw() while no withTransaction call is in progress
RawInsertOuter(doc) == frames = <<>> /\ RawInsert(doc)

\* the transaction manager over an engine that may refuse to commit
NextFault ==
  \/ Enter
  \/ Return
  \/ ReturnRefused
  \/ Fail
  \/ \E doc \in InputDocs : RawInsertOuter(doc)
  \/ EnsureTable

SpecFault == Init /\ [][NextFault]_vars

\* failing statement of a maintenance run: none, or one of the three
Failing == 0..3

\* the maintenance timer fires, or maintenance() is called.  The timer exists
\* from connect() on a database file until close().
Maintenance(timer, failing) ==
  /\ timer => conn.connected /\ eng.file
  /\ LET m == maintenance(Start(conn, eng), failing)
     IN /\ conn' = m.c
        /\ eng' = m.e
        /\ last' = Call("maintenance", conn.transactionDepth, m)
        /\ UNCHANGED frames

\* close() is called, possibly while withTransaction calls are in progress:
\* these keep the handle they captured, whose database is now closed
Close ==
  LET m == close(Start(conn, eng))
      gens == {frames[i].closed : i \in 1..Len(frames)} \cup {0}
      g == 1 + CHOOSE x \in gens : \A y \in gens : y <= x
  IN /\ conn' = m.c
     /\ eng' = m.e
     /\ frames' = [i \in 1..Len(frames) |->
                     IF frames[i].closed = 0
                     THEN [frames[i] EXCEPT !.closed = g, !.h = conn]
                     ELSE frames[i]]
     /\ last' = Call("close", conn.transactionDepth, m)

\* the innermost callback returns or throws and its withTransaction holds a
\* handle that close() has closed: commitTransaction / rollbackTransaction run
\* on that handle, which the calls around it share
FinishClosed(thrown) ==
  /\ frames # <<>>
  /\ frames[Len(frames)].closed > 0
  /\ LET d == Len(frames)
         f == frames[d]
         b == Start(f.h, ClosedHandle)
         m == FinishTransaction(IF thrown THEN Throw(b, UserError) ELSE b)
     IN /\ frames' = [i \in 1..(d - 1) |->
                        IF frames[i].closed = f.closed
                        THEN [frames[i] EXCEPT !.h = m.c]
                        ELSE frames[i]]
        /\ last' = Call(IF thrown THEN "fail" ELSE "return", f.h.transactionDepth, m)
        /\ UNCHANGED <<conn, eng>>

\* the path of the database is settled by the environment before the first
\* connect(): a file, or ":memory:"
InitConn ==
  /\ conn = NotConnected
  /\ eng \in {NewEngine, [NewEngine EXCEPT !.file = FALSE]}
  /\ frames = <<>>
  /\ last = CallRecord("init", 0, Start(NotConnected, NewEngine), NoHist)

\* the life of the connection: transactions, an operation (ensureTable, whose
\* CREATE TABLE an open transaction holds back), maintenance, close
NextConn ==
  \/ Enter
  \/ Return
  \/ Fail
  \/ \E thrown \in BOOLEAN : FinishClosed(thrown)
  \/ EnsureTable
  \/ \E timer \in BOOLEAN, failing \in Failing : Maintenance(timer, failing)
  \/ Close

SpecConn == InitConn /\ [][NextConn]_vars

(***************************************************************************)
(* The pooled manager (src/unnamed/part_009).  Here conn is the pool: is   *)
(* there one, is it draining, and for each PooledDatabase whether it is    *)
(* borrowed and its inTransaction flag; eng is the set of databases with a *)
(* transaction open (each connection its own handle on the file, or all of *)
(* them the one shared in-memory database); frames is the calls in         *)
(* progress, one slot per caller, each at an await of withConnection or    *)
(* withTransaction; last is left as it is.  The pool is generic-pool:     *)
(* acquire lends a resource that is not borrowed, release takes back a     *)
(* borrowed one, drain waits until every resource is back.                 *)
(***************************************************************************)
\* resources the pool may hold (poolMax)
MaxPool == 2
\* calls in progress at once
MaxCallers == 2

PoolNotConnected == "Not connected"
AlreadyInTransaction == "Connection already in transaction"
AcquireTimeout == "ResourceRequest timed out"

Idle == [pc |-> "idle"]

NoPool ==
  [pool |-> FALSE, draining |-> FALSE,
   res |-> [i \in 1..MaxPool |-> [borrowed |-> FALSE, inTransaction |-> FALSE]]]

\* the database behind the connection: sharedDatabase, or its own handle
DbOf(e, i) == IF e.shared THEN 0 ELSE i

\* a run of pooled-manager code: the pool c, the engine e, the call f
PoolRun(c, e, f) == [c |-> c, e |-> e, f |-> f]

PoolThrow(r, error) == [r EXCEPT !.f.err = error, !.f.threw = TRUE]

\* pooledDb.db.exec("BEGIN;") fails inside a transaction, COMMIT and
\* ROLLBACK outside of one; COMMIT also when the database is busy
PoolExec(r, k, busy) ==
  LET d == DbOf(r.e, r.f.c)
      open == d \in r.e.txn
      ok == CASE k = "BEGIN" -> ~open
              [] k = "COMMIT" -> open /\ ~busy
              [] k = "ROLLBACK" -> open
      x == IF ~ok THEN PoolThrow(r, SqliteError)
           ELSE [r EXCEPT !.e.txn = IF k = "BEGIN" THEN @ \cup {d} ELSE @ \ {d},
                          !.f.threw = FALSE]
  IN IF k = "ROLLBACK" THEN [x EXCEPT !.f.rollbacks = @ + 1] ELSE x

poolBeginTransaction(r) ==
  IF r.c.res[r.f.c].inTransaction THEN PoolThrow(r, AlreadyInTransaction)
  ELSE LET x == PoolExec(r, "BEGIN", FALSE)
       IN IF x.f.threw THEN x
          ELSE [x EXCEPT !.c.res[r.f.c].inTransaction = TRUE, !.f.opened = TRUE]

poolCommitTransaction(r, busy) ==
  IF ~r.c.res[r.f.c].inTransaction THEN PoolThrow(r, NoActiveTransaction)
  ELSE LET x == PoolExec(r, "COMMIT", busy)
       IN IF x.f.threw THEN x
          ELSE [x EXCEPT !.c.res[r.f.c].inTransaction = FALSE, !.f.opened = FALSE]

poolRollbackTransaction(r) ==
  IF ~r.c.res[r.f.c].inTransaction THEN PoolThrow(r, NoActiveTransaction)
  ELSE LET x == PoolExec(r, "ROLLBACK", FALSE)
       IN IF x.f.threw THEN x
          ELSE [x EXCEPT !.c.res[r.f.c].inTransaction = FALSE]

\* release(pooledDb): a rollback when the flag is set (a failure of it is
\* logged), then pool.release, which rejects a resource that is not borrowed
release(r) ==
  IF ~r.c.pool THEN PoolThrow(r, PoolNotConnected)
  ELSE LET x == IF ~r.c.res[r.f.c].inTransaction THEN r
                ELSE LET y == PoolExec(r, "ROLLBACK", FALSE)
                     IN IF y.f.threw
                        THEN [y EXCEPT !.f.threw = r.f.threw, !.f.err = r.f.err]
                        ELSE [y EXCEPT !.c.res[r.f.c].inTransaction = FALSE,
                                       !.f.threw = r.f.threw]
       IN IF ~x.c.res[r.f.c].borrowed THEN PoolThrow(x, SqliteError)
          ELSE [x EXCEPT !.c.res[r.f.c].borrowed = FALSE, !.f.released = @ + 1]

\* where a call goes from the await it is at, the step there having thrown
\* or not: withConnection without its finally, withTransaction releasing
\* after the commit only
NextPc_NoFinally(kind, pc, threw) ==
  IF kind = "withConnection"
  THEN CASE pc = "fn" -> IF threw THEN "done" ELSE "finally"
         [] pc = "finally" -> "done"
  ELSE CASE pc = "begin" -> IF threw THEN "catch" ELSE "fn"
         [] pc = "fn" -> IF threw THEN "catch" ELSE "commit"
         [] pc = "commit" -> IF threw THEN "catch" ELSE "finally"
         [] pc = "catch" -> "done"
         [] pc = "finally" -> "done"

\* try / catch / finally of withConnection and withTransaction
NextPc(kind, pc, threw) ==
  IF kind = "withConnection"
  THEN CASE pc = "fn" -> "finally"
         [] pc = "finally" -> "done"
  ELSE CASE pc = "begin" -> IF threw THEN "catch" ELSE "fn"
         [] pc = "fn" -> IF threw THEN "catch" ELSE "commit"
         [] pc = "commit" -> IF threw THEN "catch" ELSE "finally"
         [] pc = "catch" -> "finally"
         [] pc = "finally" -> "done"

Kinds == {"withConnection", "withTransaction"}

\* what a callback does: returns, throws, or calls beginTransaction on its
\* connection and then throws
Outcomes == {"returns", "throws", "begins and throws"}

Callers == 1..MaxCallers

\* connect(): the pool, over the shared in-memory database or over a file
PoolConnect ==
  /\ ~conn.pool
  /\ \E shared \in BOOLEAN :
       /\ conn' = [NoPool EXCEPT !.pool = TRUE]
       /\ eng' = [shared |-> shared, txn |-> {}]
  /\ UNCHANGED <<frames, last>>

\* a caller calls withConnection / withTransaction: acquire().  The call
\* takes the first free slot, the pool lends the first resource it has.
Acquire(p, kind) ==
  /\ frames[p] = Idle
  /\ \A q \in 1..(p - 1) : frames[q] # Idle
  /\ LET free == {i \in 1..MaxPool : ~conn.res[i].borrowed}
         f0 == [pc |-> "done", kind |-> kind, c |-> 0, threw |-> FALSE,
                err |-> PoolNotConnected, opened |-> FALSE, rollbacks |-> 0,
                released |-> 0]
     IN IF ~conn.pool \/ conn.draining
        THEN /\ frames' = [frames EXCEPT ![p] = f0]
             /\ UNCHANGED conn
        ELSE IF free = {}
        THEN /\ frames' = [frames EXCEPT ![p] = [f0 EXCEPT !.err = AcquireTimeout]]
             /\ UNCHANGED conn
        ELSE LET i == CHOOSE j \in free : \A k \in free : j <= k
             IN
               /\ conn' = [conn EXCEPT !.res[i].borrowed = TRUE]
               /\ frames' = [frames EXCEPT ![p] =
                               [f0 EXCEPT !.c = i, !.err = NoErr,
                                          !.pc = IF kind = "withTransaction"
                                                 THEN "begin" ELSE "fn"]]
  /\ UNCHANGED <<eng, last>>

\* the step of a call at its await: beginTransaction, fn, commitTransaction,
\* the catch block, the finally block
Step(p, outcome, busy) ==
  /\ frames[p] # Idle
  /\ frames[p].pc \notin {"done"}
  /\ LET f == frames[p]
         r == PoolRun(conn, eng, [f EXCEPT !.threw = FALSE])
         x == CASE f.pc = "begin" -> poolBeginTransaction(r)
                [] f.pc = "fn" ->
                     IF outcome = "returns" THEN r
                     ELSE IF outcome = "throws" THEN PoolThrow(r, UserError)
                     ELSE LET b == poolBeginTransaction(r)
                          IN IF b.f.threw THEN b ELSE PoolThrow(b, UserError)
                [] f.pc = "commit" -> poolCommitTransaction(r, busy)
                [] f.pc = "catch" ->
                     LET rb == poolRollbackTransaction(r)
                     IN IF rb.f.threw THEN rb ELSE PoolThrow(rb, f.err)
                [] f.pc = "finally" ->
                     LET rl == release(r)
                     IN IF rl.f.threw THEN rl
                        ELSE [rl EXCEPT !.f.threw = f.err # NoErr]
     IN /\ conn' = x.c
        /\ eng' = x.e
        /\ frames' = [frames EXCEPT ![p] =
                        [x.f EXCEPT !.pc = NextPc(f.kind, f.pc, x.f.threw),
                                    !.threw = FALSE]]
        /\ UNCHANGED last

\* the call returns to its caller, or throws to it
Finish(p) ==
  /\ frames[p] # Idle
  /\ frames[p].pc = "done"
  /\ frames' = [frames EXCEPT ![p] = Idle]
  /\ UNCHANGED <<conn, eng, last>>

\* close(): pool.drain() from the call on, and once every resource is back
\* pool.clear() (destroy rolls back a connection left in a transaction) and
\* this.pool = null
PoolDrain ==
  /\ conn.pool /\ ~conn.draining
  /\ conn' = [conn EXCEPT !.draining = TRUE]
  /\ UNCHANGED <<eng, frames, last>>

PoolClose ==
  /\ conn.pool /\ conn.draining
  /\ \A i \in 1..MaxPool : ~conn.res[i].borrowed
  /\ conn' = NoPool
  /\ eng' = [eng EXCEPT !.txn = {}]
  /\ UNCHANGED <<frames, last>>

InitPool ==
  /\ conn = NoPool
  /\ eng = [shared |-> FALSE, txn |-> {}]
  /\ frames = [p \in Callers |-> Idle]
  /\ last = CallRecord("init", 0, Start(NotConnected, NewEngine), NoHist)

NextPool ==
  \/ PoolConnect
  \/ \E p \in Callers, kind \in Kinds : Acquire(p, kind)
  \/ \E p \in Callers, outcome \in Outcomes, busy \in BOOLEAN : Step(p, outcome, busy)
  \/ \E p \in Callers : Finish(p)
  \/ PoolDrain
  \/ PoolClose

SpecPool == InitPool /\ [][NextPool]_vars

\* documents of a batch
MaxBatch == 2

\* a document handed to saveMany: its fields, its id (0: none) and whether
\* its _validate accepts it
BatchDocs ==
  {[doc |-> d, id |-> i, valid |-> v] :
     d \in InputDocs, i \in 0..1, v \in BOOLEAN}

RECURSIVE SeqsUpTo(_, _)
SeqsUpTo(S, n) ==
  IF n = 0 THEN {<<>>}
  ELSE LET T == SeqsUpTo(S, n - 1)
       IN T \cup {Append(t, x) : t \in {u \in T : Len(u) = n - 1}, x \in S}

Batches == SeqsUpTo(BatchDocs, MaxBatch)

SaveMany(flatDocs) ==
  /\ CanCall
  /\ eng.cur.seq + Len(flatDocs) <= MaxRows
  /\ Len(eng.sps) < MaxSavepoints
  /\ LET m == saveMany(Start(conn, eng), flatDocs)
     IN /\ conn' = m.c
        /\ eng' = m.e
        /\ last' = [Call("saveMany", conn.transactionDepth, m)
                     EXCEPT !.wrote = Len(flatDocs)]
        /\ Called

\* batches saved from the top level and from inside a transaction, on a
\* table with check constraints
NextSave ==
  \/ EnterOuter
  \/ Return
  \/ Fail
  \/ \E flatDocs \in Batches : SaveMany(flatDocs)
  \/ \E field \in CheckFields, constraint \in CheckExprs :
       CheckConstraint(field, constraint)

SpecSave == Init /\ [][NextSave]_vars

(***************************************************************************)
(* The two other filter compilers: QueryBuilder (src/src/query-builder.ts) *)
(* and the buildWhereClause of the utilities (src/unnamed/part_014).  The  *)
(* filters of the model name a field of the body, with a literal or with   *)
(* one operator among $eq, $ne, $exists and keys no switch has a case for; *)
(* the cases of $gt to $lte, $in, $nin and $regex, which compare without   *)
(* CAST or by pattern, yield a condition that the model does not evaluate. *)
(***************************************************************************)
\* a parameter bound as the JavaScript value it is; an array or an object
\* cannot be bound
BindValue(x) ==
  IF x.k = "string" THEN SqlText(x.v)
  ELSE IF x.k = "null" THEN SqlNull
  ELSE IF x.k \in {"array", "object"} THEN [c |-> "unbindable", v |-> x.v]
  ELSE SqlInt(x.v)

\* the operators QueryBuilder.buildOperatorCondition has a case for
QueryBuilderOps ==
  {"$eq", "$ne", "$gt", "$gte", "$lt", "$lte", "$in", "$nin", "$exists", "$regex"}

\* typeof operatorValue === 'object' ? JSON.stringify(operatorValue) : operatorValue
StringifyObject(x) ==
  IF x.k \in {"null", "array", "object"} THEN SqlText(x.v) ELSE BindValue(x)

\* whether the operand of $exists is truthy
Truthy(x) == x.k = "boolean" /\ x.v = "1"

\* QueryBuilder.buildOperatorCondition for an operator object of one key:
\* the conditions it joins (none for a key without a case)
buildOperatorCondition(field, x) ==
  CASE x.op = "$eq" ->
         {[on |-> "data", f |-> field, cmp |-> "=", param |-> StringifyObject(x)]}
    [] x.op = "$ne" ->
         {[on |-> "data", f |-> field, cmp |-> "!=", param |-> StringifyObject(x)]}
    [] x.op = "$exists" ->
         {[on |-> "data", f |-> field,
           cmp |-> IF Truthy(x) THEN "IS NOT NULL" ELSE "IS NULL", param |-> SqlNull]}
    [] x.op \in {"$gt", "$gte", "$lt", "$lte"} ->
         {[on |-> "data", f |-> field, cmp |-> "no cast " \o x.op, param |-> BindValue(x)]}
    [] x.op = "$regex" ->
         {[on |-> "data", f |-> field, cmp |-> "LIKE",
           param |-> [c |-> "pattern of", v |-> x.v]]}
    [] OTHER -> {}

\* QueryBuilder.buildFieldCondition for a field of the body
buildFieldCondition(field, x) ==
  IF x.op # "" THEN buildOperatorCondition(field, x)
  ELSE IF x.k \in {"array", "object"}
  THEN {[on |-> "data", f |-> field, cmp |-> "=", param |-> SqlText(x.v)]}
  ELSE {[on |-> "data", f |-> field, cmp |-> "=", param |-> BindValue(x)]}

\* QueryBuilder.buildWhereClause: a field whose condition is empty is left out
QueryBuilderWhere(filter) ==
  [err |-> NoErr, key |-> "",
   conds |-> UNION {buildFieldCondition(field, filter[field]) : field \in DOMAIN filter}]

\* one entry of the filter in the utilities' buildWhereClause: an object that
\* is no array is taken for operators, anything else is compared directly
UtilsCondition(key, x) ==
  IF x.op # "" THEN
    CASE x.op = "$eq" ->
           {[on |-> "data", f |-> key, cmp |-> "=", param |-> BindValue(x)]}
      [] x.op = "$ne" ->
           {[on |-> "data", f |-> key, cmp |-> "!=", param |-> BindValue(x)]}
      [] x.op = "$exists" ->
           {[on |-> "data", f |-> key,
             cmp |-> IF Truthy(x) THEN "IS NOT NULL" ELSE "IS NULL", param |-> SqlNull]}
      [] x.op \in {"$gt", "$gte", "$lt", "$lte"} ->
           {[on |-> "data", f |-> key, cmp |-> "no cast " \o x.op, param |-> BindValue(x)]}
      [] OTHER -> {}
  ELSE IF x.k = "object" THEN {}
  ELSE {[on |-> "data", f |-> key, cmp |-> "=", param |-> BindValue(x)]}

buildWhereClauseUtils(filter) ==
  [err |-> NoErr, key |-> "",
   conds |-> UNION {UtilsCondition(key, filter[key]) : key \in DOMAIN filter}]

\* the compilers, and the operators each has a case for
Compilers == {"operations", "QueryBuilder", "utils"}

CasesOf(impl) == IF impl = "QueryBuilder" THEN QueryBuilderOps ELSE SupportedOps

CompileWith(impl, filter) ==
  CASE impl = "operations" -> buildWhereClause(filter)
    [] impl = "QueryBuilder" -> QueryBuilderWhere(filter)
    [] impl = "utils" -> buildWhereClauseUtils(filter)

\* values of a field, in documents and in filters
FilterValues ==
  {Str("a"), Num("1"), Bool("1"), Nul, Arr("[]"), Arr("[a]"), Obj("{}"), Obj("{city}")}

FilterDocs == {[f \in {"tags"} |-> v] : v \in FilterValues}

\* filters of one operator: with a case in every switch, or in none
OperatorFilters ==
  {[f \in {"tags"} |-> Op(o, v)] :
     o \in {"$eq", "$ne", "$exists", "$size"}, v \in {Str("a"), Num("1"), Bool("1")}}

\* what a compiler answers and, when it compiles, the rows its clause selects
Compiled(impl, filter) ==
  LET w == CompileWith(impl, filter)
  IN [err |-> w.err, key |-> w.key, conds |-> w.conds,
      rows |-> IF w.err = NoErr THEN Select(eng.cur, w.conds) ELSE {}]

\* a filter compiled by each compiler
Compile(filter) ==
  /\ last' = [CallWith("compile", conn.transactionDepth, Start(conn, eng),
                       filter, NoUpdate, FALSE)
               EXCEPT !.res = [impl \in Compilers |-> Compiled(impl, filter)]]
  /\ UNCHANGED <<conn, eng, frames>>

\* { tags: v } and { tags: { $eq: v } } compiled by operations.ts and by
\* QueryBuilder
Equate(v) ==
  /\ last' = [CallWith("equate", conn.transactionDepth, Start(conn, eng),
                       [f \in {"tags"} |-> Lit(v)], NoUpdate, FALSE)
               EXCEPT !.res =
                 [impl \in {"operations", "QueryBuilder"} |->
                    [lit |-> Compiled(impl, [f \in {"tags"} |-> Lit(v)]),
                     eq |-> Compiled(impl, [f \in {"tags"} |-> Op("$eq", v)])]]]
  /\ UNCHANGED <<conn, eng, frames>>

\* filters compiled against a table of documents
NextFilter ==
  \/ EnsureTable
  \/ \E doc \in FilterDocs : RawInsert(doc)
  \/ \E filter \in OperatorFilters : Compile(filter)
  \/ \E v \in FilterValues : Equate(v)

SpecFilter == Init /\ [][NextFilter]_vars

(***************************************************************************)
(* Operator updates of a Collection (src/src/collection.ts).  A document   *)
(* may hold objects: the value of a key is a scalar, or an object given by *)
(* the function from its keys to their values.  The collection of the      *)
(* model holds one document, kept in last with the update applied last.    *)
(***************************************************************************)
Nested(o) == [k |-> "object", v |-> o]

\* obj[key] = value
Put(obj, key, value) ==
  [g \in (DOMAIN obj) \cup {key} |-> IF g = key THEN value ELSE obj[g]]

\* delete obj[key]
Delete(obj, key) == [g \in (DOMAIN obj) \ {key} |-> obj[g]]

\* field.split('.') for the field names of the model
Split(field) ==
  CASE field = "age" -> <<"age">>
    [] field = "profile" -> <<"profile">>
    [] field = "profile.age" -> <<"profile", "age">>

\* setNestedField(obj, field, value), keys being field.split('.')
RECURSIVE setNestedField(_, _, _)
setNestedField(obj, keys, value) ==
  IF Len(keys) = 1 THEN Put(obj, keys[1], value)
  ELSE LET key == keys[1]
           current == IF key \in DOMAIN obj /\ obj[key].k = "object"
                      THEN obj[key].v
                      ELSE EmptyDoc
       IN Put(obj, key, Nested(setNestedField(current, Tail(keys), value)))

\* (modifiedDoc[field] || 0) + increment: a number, or the text that + makes
\* of anything else
Increment(obj, field, increment) ==
  IF field \notin DOMAIN obj \/ obj[field] = Num("0") THEN Num(IdText(increment))
  ELSE IF obj[field].k = "number" THEN Num(IdText(CastReal(obj[field]) + increment))
  ELSE Str("concatenated")

\* an update object of one operator on one field
NoOperators == [set |-> EmptyDoc, unset |-> {}, inc |-> [f \in {} |-> 0]]

UpdateOf(u) ==
  CASE u.op = "$set" -> [NoOperators EXCEPT !.set = [f \in {u.field} |-> u.value]]
    [] u.op = "$unset" -> [NoOperators EXCEPT !.unset = {u.field}]
    [] u.op = "$inc" -> [NoOperators EXCEPT !.inc = [f \in {u.field} |-> u.delta]]

RECURSIVE SetEach(_, _, _)
SetEach(doc, set, fields) ==
  IF fields = {} THEN doc
  ELSE LET field == CHOOSE f \in fields : TRUE
       IN SetEach(setNestedField(doc, Split(field), set[field]), set, fields \ {field})

RECURSIVE UnsetEach(_, _)
UnsetEach(doc, fields) ==
  IF fields = {} THEN doc
  ELSE LET field == CHOOSE f \in fields : TRUE
       IN UnsetEach(Delete(doc, field), fields \ {field})

RECURSIVE IncEach(_, _, _)
IncEach(doc, inc, fields) ==
  IF fields = {} THEN doc
  ELSE LET field == CHOOSE f \in fields : TRUE
       IN IncEach(Put(doc, field, Increment(doc, field, inc[field])), inc, fields \ {field})

\* handleUpdateOperators: what the loop makes of one document found
handleUpdateOperators(doc, update) ==
  LET s == SetEach(doc, update.set, DOMAIN update.set)
      u == UnsetEach(s, update.unset)
  IN IncEach(u, update.inc, DOMAIN update.inc)

\* the updates applied: one operator, one field
OperatorUpdates ==
  {[op |-> "$set", field |-> f, value |-> v, delta |-> 0] :
     f \in {"age", "profile.age"}, v \in {Num("2"), Str("x")}}
  \cup {[op |-> "$unset", field |-> f, value |-> Str(""), delta |-> 0] :
          f \in {"age", "profile", "profile.age"}}
  \cup {[op |-> "$inc", field |-> f, value |-> Str(""), delta |-> 1] :
          f \in {"age", "profile.age"}}

\* the documents inserted
UpdateDocs ==
  {EmptyDoc,
   [f \in {"age"} |-> Num("1")],
   [f \in {"age", "profile"} |->
      IF f = "age" THEN Num("0") ELSE Nested([g \in {"age", "name"} |->
                                               IF g = "age" THEN Num("1") ELSE Str("n")])],
   [f \in {"profile"} |-> Str("x")]}

Updated(op, u, before, after) == [op |-> op, update |-> u, before |-> before, after |-> after]

NoOperator == [op |-> "", field |-> "", value |-> Str(""), delta |-> 0]

\* updateOne(filter, update) on the document of the collection
UpdateOne(u) ==
  /\ last.op \in {"insertOne", "updateOne"}
  /\ u.op = "$inc" =>
       \A f \in DOMAIN last.after :
         last.after[f].k = "number" => CastReal(last.after[f]) + u.delta \in 0..2
  /\ last' = Updated("updateOne", u, last.after, handleUpdateOperators(last.after, UpdateOf(u)))
  /\ UNCHANGED <<conn, eng, frames>>

InitUpdate ==
  /\ conn = NotConnected
  /\ eng = NewEngine
  /\ frames = <<>>
  /\ \E doc \in UpdateDocs : last = Updated("insertOne", NoOperator, doc, doc)

NextUpdate == \E u \in OperatorUpdates : UpdateOne(u)

SpecUpdate == InitUpdate /\ [][NextUpdate]_vars

(***************************************************************************)
(* A Collection over its table (src/src/collection.ts).  It sends every    *)
(* statement through the Database it was given, which is in no             *)
(* transaction: each statement commits at once.  uidx of the database is   *)
(* the paths p with a UNIQUE index on JSON_EXTRACT(data, '$.p').           *)
(***************************************************************************)
\* whether a row with this body repeats a value under a UNIQUE index
IndexClash(db, id, data) ==
  \E p \in db.uidx :
    /\ JsonExtract(data, p) # SqlNull
    /\ \E j \in DOMAIN db.rows \ {id} : JsonExtract(db.rows[j].data, p) = JsonExtract(data, p)

\* ensureCollectionExists(), which the constructor calls
ensureCollectionExists(m) ==
  LET db1 == [m.e.cur EXCEPT !.exists = TRUE]
      m1 == Run(m, "CREATE TABLE", db1)
  IN Run(m1, "CREATE TRIGGER",
         [db1 EXCEPT !.trigs = @ \cup {Trigger("updated_at", "", "update")}])

\* insertOne(document) with a fresh _id
insertOne(m, document) ==
  LET data == Stringify(document)
      new == InsertRow(m.e.cur, data)
  IN IF IndexClash(m.e.cur, new.seq, data) THEN RunAborts(m, "INSERT", UniqueViolated)
     ELSE Run(m, "INSERT", new)

\* createIndex({ p: 1 }, { unique: true }): refused while two rows hold the
\* same value
collectionCreateIndex(m, p) ==
  LET db == m.e.cur
  IN IF \E i \in DOMAIN db.rows :
          IndexClash([db EXCEPT !.uidx = {p}], i, db.rows[i].data)
     THEN RunFails(m, "CREATE INDEX")
     ELSE Run(m, "CREATE INDEX", [db EXCEPT !.uidx = @ \cup {p}])

\* UPDATE t SET data = ? WHERE _id = ?
CollectionUpdate(m, id, data) ==
  IF IndexClash(m.e.cur, id, data) THEN RunAborts(m, "UPDATE", UniqueViolated)
  ELSE Run(m, "UPDATE", UpdateRow(m.e.cur, id, data))

\* the loop of handleUpdateOperators over the documents found, in the order
\* the SELECT gave them (that of their insertion)
RECURSIVE ModifyEach(_, _, _)
ModifyEach(m, ids, update) ==
  IF ids = {} THEN m
  ELSE LET id == CHOOSE i \in ids : \A j \in ids : i <= j
           doc == Parse(m.e.cur.rows[id].data)
           modifiedDoc == handleUpdateOperators(doc, update)
           m1 == CollectionUpdate(m, id, Stringify(modifiedDoc))
       IN IF m1.err # NoErr THEN m1
          ELSE ModifyEach([m1 EXCEPT !.res.modified = @ + 1], ids \ {id}, update)

\* updateOne / updateMany(filter, update) with an operator update and no
\* upsert: find(filter, { limit }), then the loop
collectionUpdate(m, filter, update, multi) ==
  LET found == Select(m.e.cur, QueryBuilderWhere(filter).conds)
      documents == IF multi \/ found = {} THEN found
                   ELSE {CHOOSE i \in found : \A j \in found : i <= j}
      m0 == Run(m, "SELECT", m.e.cur)
      m1 == ModifyEach(m0, documents, update)
  IN IF m1.err # NoErr THEN m1
     ELSE [m1 EXCEPT !.res.matched = Cardinality(documents)]

\* documents, filters and updates of the collection
AgeDocs == {[f \in {"age"} |-> Num(t)] : t \in {"0", "1"}} \cup {EmptyDoc}

AgeFilters == {EmptyFilter, [f \in {"age"} |-> Op("$exists", Bool("1"))]}

AgeUpdates ==
  {[op |-> "$set", field |-> "age", value |-> Num("2"), delta |-> 0],
   [op |-> "$inc", field |-> "age", value |-> Str(""), delta |-> 1],
   [op |-> "$unset", field |-> "age", value |-> Str(""), delta |-> 0]}

InsertOne(document) ==
  /\ eng.cur.seq < MaxRows
  /\ LET m == insertOne(Start(conn, eng), document)
     IN /\ eng' = m.e
        /\ last' = Call("insertOne", 0, m)
        /\ UNCHANGED <<conn, frames>>

CollectionCreateIndex(p) ==
  /\ p \notin eng.cur.uidx
  /\ LET m == collectionCreateIndex(Start(conn, eng), p)
     IN /\ eng' = m.e
        /\ last' = Call("createIndex", 0, m)
        /\ UNCHANGED <<conn, frames>>

CollectionUpdateMany(filter, u, multi) ==
  /\ u.op = "$inc" =>
       \A i \in DOMAIN eng.cur.rows :
         "age" \in DOMAIN eng.cur.rows[i].data =>
           CastReal(eng.cur.rows[i].data["age"]) + u.delta \in 0..2
  /\ LET m == collectionUpdate(Start(conn, eng), filter, UpdateOf(u), multi)
     IN /\ eng' = m.e
        /\ last' = CallWith(IF multi THEN "updateMany" ELSE "updateOne", 0, m,
                            filter, NoUpdate, FALSE)
        /\ UNCHANGED <<conn, frames>>

\* new Collection(db, name)
InitCollection ==
  /\ conn = NotConnected
  /\ eng = ensureCollectionExists(Start(NotConnected, NewEngine)).e
  /\ frames = <<>>
  /\ last = CallRecord("init", 0, Start(NotConnected, NewEngine), NoHist)

NextCollection ==
  \/ \E document \in AgeDocs : InsertOne(document)
  \/ CollectionCreateIndex("age")
  \/ \E filter \in AgeFilters, u \in AgeUpdates, multi \in BOOLEAN :
       CollectionUpdateMany(filter, u, multi)

SpecCollection == InitCollection /\ [][NextCollection]_vars

(***************************************************************************)
(* Calls of withTransaction in progress at the same time on the one        *)
(* connection (Promise.all of saves; saveMany and updateMany, whose         *)
(* callbacks await).  A call yields at each await: after beginTransaction, *)
(* between the statements of its callback, and it ends in one step         *)
(* (commitTransaction, or the catch block).  Here frames holds every call  *)
(* made, in the order of their beginTransaction: st is "running", "ok"     *)
(* (the call returned) or "failed" (it threw), rows the ids of the rows    *)
(* its callback inserted.                                                  *)
(***************************************************************************)
AsyncEnter ==
  /\ Len(frames) < MaxCallers
  /\ LET m == withTransactionEnter(Start(conn, eng))
     IN /\ conn' = m.c
        /\ eng' = m.e
        /\ frames' = Append(frames, [st |-> IF m.err # NoErr THEN "failed" ELSE "running",
                                     rows |-> {}])
        /\ last' = Call("enter", conn.transactionDepth, m)

\* the callback of call i sends an INSERT through the connection it was given
AsyncInsert(i, doc) ==
  /\ frames[i].st = "running"
  /\ eng.cur.exists
  /\ eng.cur.seq < MaxRows
  /\ LET m == ExecInsert(Start(conn, eng), Stringify(doc))
     IN /\ conn' = m.c
        /\ eng' = m.e
        /\ frames' = [frames EXCEPT ![i].rows =
                        IF m.err = NoErr THEN @ \cup {m.e.cur.seq} ELSE @]
        /\ last' = Call("insert", conn.transactionDepth, m)

\* the callback of call i returns, or throws
AsyncFinish(i, thrown) ==
  /\ frames[i].st = "running"
  /\ LET b == Start(conn, eng)
         m == FinishTransaction(IF thrown THEN Throw(b, UserError) ELSE b)
     IN /\ conn' = m.c
        /\ eng' = m.e
        /\ frames' = [frames EXCEPT ![i].st = IF m.err = NoErr THEN "ok" ELSE "failed"]
        /\ last' = Call(IF thrown THEN "fail" ELSE "return", conn.transactionDepth, m)

NextAsync ==
  \/ EnsureTable
  \/ AsyncEnter
  \/ \E i \in 1..Len(frames), doc \in InputDocs : AsyncInsert(i, doc)
  \/ \E i \in 1..Len(frames), thrown \in BOOLEAN : AsyncFinish(i, thrown)

SpecAsync == Init /\ [][NextAsync]_vars

\* the document operations, from the top level and from inside a transaction
NextOps ==
  \/ EnterOuter
  \/ Return
  \/ Fail
  \/ \E doc \in InputDocs : RawInsertOps(doc)
  \/ EnsureTable
  \/ \E filter \in Filters, update \in Updates, upsert \in BOOLEAN :
       UpdateMany(filter, update, upsert)
  \/ \E filter \in Filters : Find(filter)
  \/ \E filter \in Filters : DeleteMany(filter)
  \/ \E filter \in Filters : DeleteOne(filter)

SpecOps == Init /\ [][NextOps]_vars

\* promotion of paths on a table that receives and updates documents by
\* statements of its own (the table is the one createIndex ensures)
NextIndex ==
  \/ \E fieldList \in IndexFields, unique \in BOOLEAN : CreateIndex(fieldList, unique)
  \/ \E doc \in InputDocs : RawInsert(doc)
  \/ \E id \in 1..MaxRows, doc \in InputDocs : RawUpdate(id, doc)
  \/ \E field \in CheckFields, constraint \in CheckExprs :
       CheckConstraint(field, constraint)

SpecIndex == Init /\ [][NextIndex]_vars

(***************************************************************************)
(* Properties.  Depth is the nesting the caller is at: the number of       *)
(* withTransaction calls in progress.                                      *)
(***************************************************************************)
Entry(k, n, d) == [k |-> k, n |-> n, d |-> d, ok |-> TRUE]

\* C1: an enter while a transaction is open issues SAVEPOINT (named after the
\* depth) and increments the counter; a successful leave issues RELEASE and
\* decrements it; BEGIN comes only from the enter at depth 0 and COMMIT only
\* from the leave back to depth 0, and neither ever fails, the engine holding
\* one transaction exactly while the counter is above 0.
C1_SavepointsInsideOneTransaction ==
  /\ conn.transactionDepth = Len(frames)
  /\ eng.txn <=> conn.transactionDepth > 0
  /\ conn.inTransaction <=> conn.transactionDepth > 0
  /\ last.op = "enter" =>
       /\ last.err = NoErr
       /\ conn.transactionDepth = last.d0 + 1
       /\ last.log = IF last.d0 = 0 THEN <<Entry("BEGIN", 0, 0)>>
                     ELSE <<Entry("SAVEPOINT", last.d0, last.d0)>>
  /\ last.op = "return" =>
       /\ last.err = NoErr
       /\ conn.transactionDepth = last.d0 - 1
       /\ last.log = IF last.d0 = 1 THEN <<Entry("COMMIT", 0, 0)>>
                     ELSE <<Entry("RELEASE", last.d0 - 1, last.d0 - 1)>>
  /\ \A i \in 1..Len(last.log) :
       /\ last.log[i].k = "BEGIN" => last.op = "enter" /\ last.d0 = 0
       /\ last.log[i].k = "COMMIT" => last.op = "return" /\ last.d0 = 1

\* an enter at depth 1 has issued a savepoint, after a nested level before it
\* was rolled back
C1_Witness ==
  /\ last.op = "enter"
  /\ last.d0 = 1
  /\ Len(eng.sps) = 2
  /\ last.log[1].k = "SAVEPOINT"

\* C2: when the callback at depth d fails with E, the manager rolls back to
\* the savepoint made for that depth (the whole transaction at the outermost
\* level), the rollback succeeds, the database is the one that savepoint saw,
\* and the call then fails with E itself.
C2_RollbackThenRethrow ==
  [][Fail =>
       LET d == Len(frames)
       IN /\ last'.err = UserError
          /\ last'.log = IF d = 1 THEN <<Entry("ROLLBACK", 0, 0)>>
                         ELSE <<Entry("ROLLBACK TO", d - 1, d - 1)>>
          /\ eng'.cur = frames[d].snap
          /\ conn'.transactionDepth = d - 1]_vars

\* a nested callback that wrote a row has failed
C2_Witness ==
  /\ last.op = "fail"
  /\ last.d0 = 2
  /\ last.wrote > 0
  /\ last.err = UserError

\* C3: in a transaction nested once, a rollback at the inner level leaves the
\* database as it was when the nesting began (the inner writes gone, the
\* writes made before it kept), and the commit of the outer level makes the
\* working database, those writes included, the committed one.
C3_InnerRollbackKeepsOuterWrites ==
  [][/\ (Fail /\ Len(frames) = 2) =>
          /\ eng'.cur = frames[2].snap
          /\ eng'.txn
          /\ eng'.committed = eng.committed
     /\ (Return /\ Len(frames) = 1) =>
          /\ eng'.committed = eng.cur
          /\ eng'.cur = eng.cur
          /\ ~eng'.txn]_vars

\* the outer level commits a row it wrote before a nested level that wrote a
\* row and was rolled back: one row is committed
C3_Witness ==
  /\ last.op = "return"
  /\ last.d0 = 1
  /\ last.wrote = 1
  /\ last.undone = 1
  /\ DOMAIN eng.committed.rows = {1}
  /\ eng.committed.seq = 1
  /\ eng.cur = eng.committed

\* C4: when the callback of an outermost withTransaction throws, the call
\* fails with the callback's error, the working database is the committed
\* one, and the committed one is what it was before the call.
C4_OuterFailureLeavesCommitted ==
  [][(Fail /\ Len(frames) = 1) =>
       /\ last'.err = UserError
       /\ eng'.cur = eng.committed
       /\ eng'.committed = eng.committed
       /\ ~eng'.txn]_vars

\* an outermost callback that wrote a row has failed, over a committed row
C4_Witness ==
  /\ last.op = "fail"
  /\ last.d0 = 1
  /\ last.wrote > 0
  /\ DOMAIN eng.committed.rows = {1}
  /\ eng.cur = eng.committed

\* C9: commit or rollback on a connection at depth 0 raises the "No active
\* transaction" error, sends no statement, and leaves the counter at 0 and the
\* flag false.
C9_NoActiveTransaction ==
  (last.op \in {"commit", "rollback"} /\ last.d0 = 0) =>
    /\ last.err = NoActiveTransaction
    /\ last.log = <<>>
    /\ conn.transactionDepth = 0
    /\ ~conn.inTransaction

\* rollback was called at depth 0, on a connection that has committed rows
C9_Witness ==
  /\ last.op = "rollback"
  /\ last.d0 = 0
  /\ last.err = NoActiveTransaction
  /\ eng.committed.rows # EmptyRows

\* a filter of literal fields only, the document those fields make, and
\* whether a stored document has each of them with that value
LiteralFilter(filter) == \A key \in DOMAIN filter : filter[key].op = ""

LiteralFields(filter) ==
  [key \in DOMAIN filter |-> [k |-> filter[key].k, v |-> filter[key].v]]

DocMatches(data, filter) ==
  \A key \in DOMAIN filter :
    key \in DOMAIN data /\ data[key] = LiteralFields(filter)[key]

Matching(db, filter) == {id \in DOMAIN db.rows : DocMatches(db.rows[id].data, filter)}

\* C5: updateMany with an update that has no $set raises the missing-$set
\* error and sends nothing: the engine (every table, committed and working)
\* is the same before and after, whatever the filter and with upsert or not.
C5_MissingSetChangesNothing ==
  [][(last'.op = "updateMany" /\ ~HasSet(last'.args.update)) =>
       /\ last'.err = MissingSet
       /\ last'.log = <<>>
       /\ eng' = eng]_vars

\* updateMany without $set was called with upsert on a table that has a row
C5_Witness ==
  /\ last.op = "updateMany"
  /\ ~HasSet(last.args.update)
  /\ last.args.upsert
  /\ last.err = MissingSet
  /\ eng.cur.rows # EmptyRows

\* C6, for filters of literal fields: updateMany(filter, {$set: s}) that
\* finds rows having the filter's fields (or is called without upsert)
\* gives each such row the fields of s over its own, reports their number as
\* matched and as modified, and leaves every other row as it was.
C6_RewritesExactlyTheMatching ==
  [][LET a == last'.args
         M == Matching(eng.cur, a.filter)
     IN (/\ last'.op = "updateMany"
         /\ HasSet(a.update)
         /\ LiteralFilter(a.filter)
         /\ last'.err = NoErr
         /\ M # {} \/ ~a.upsert) =>
          /\ DOMAIN eng'.cur.rows = DOMAIN eng.cur.rows
          /\ \A id \in DOMAIN eng.cur.rows :
               eng'.cur.rows[id].data =
                 IF id \in M THEN Spread(eng.cur.rows[id].data, a.update.set[1])
                 ELSE eng.cur.rows[id].data
          /\ last'.res.matched = Cardinality(M)
          /\ last'.res.modified = Cardinality(M)]_vars

\* C7, for filters of literal fields: updateMany with upsert that finds no
\* row having the filter's fields inserts one document, the filter's fields
\* merged with those of $set, and reports it as upserted with modified 0;
\* when a row has them, it inserts none.
C7_UpsertMergesFilterAndSet ==
  [][LET a == last'.args
         M == Matching(eng.cur, a.filter)
         new == eng.cur.seq + 1
     IN (/\ last'.op = "updateMany"
         /\ HasSet(a.update)
         /\ a.upsert
         /\ LiteralFilter(a.filter)
         /\ last'.err = NoErr) =>
          IF M = {}
          THEN /\ DOMAIN eng'.cur.rows = DOMAIN eng.cur.rows \cup {new}
               /\ eng'.cur.rows[new].data =
                    Spread(LiteralFields(a.filter), a.update.set[1])
               /\ \A id \in DOMAIN eng.cur.rows :
                    eng'.cur.rows[id] = eng.cur.rows[id]
               /\ last'.res.upserted = new
               /\ last'.res.modified = 0
          ELSE DOMAIN eng'.cur.rows = DOMAIN eng.cur.rows]_vars

\* C8: find, updateMany, deleteMany or deleteOne with a filter that does not
\* compile raises the error before any statement is sent, leaving the engine
\* and the connection's depth and flag as they were.
C8_CompileErrorSendsNothing ==
  [][(/\ last'.op \in {"find", "updateMany", "deleteMany", "deleteOne"}
      /\ last'.err = UnsupportedOperator) =>
       /\ last'.log = <<>>
       /\ eng' = eng
       /\ conn'.transactionDepth = conn.transactionDepth
       /\ conn'.inTransaction = conn.inTransaction]_vars

\* C10: a promotion that repeats the one before it, same fields and same
\* options, leaves the columns, the triggers and every row (body and promoted
\* columns) of the table as the first one left them.
C10_PromotionIdempotent ==
  [][(last'.op = "createIndex" /\ last'.again) =>
       /\ eng'.cur.cols = eng.cur.cols
       /\ eng'.cur.trigs = eng.cur.trigs
       /\ eng'.cur.rows = eng.cur.rows
       /\ eng'.committed = eng'.cur]_vars

\* a path was promoted twice in a row, without error, on a table with a row
\* that has a value at the path
C10_Witness ==
  /\ last.op = "createIndex"
  /\ last.again
  /\ last.err = NoErr
  /\ \E id \in DOMAIN eng.cur.rows :
       \E p \in eng.cur.cols : eng.cur.rows[id].col[p] # SqlNull

\* C11: createIndex of more than one field with unique: true raises the
\* single-fields error, and the table has the columns, triggers and indexes
\* it had before the call.
C11_CompoundUniqueAddsNothing ==
  [][(/\ last'.op = "createIndex"
      /\ last'.args.unique
      /\ Len(last'.args.fields) > 1) =>
       /\ last'.err = UniqueMultiField
       /\ eng'.cur.cols = eng.cur.cols
       /\ eng'.cur.trigs = eng.cur.trigs
       /\ eng'.cur.idx = eng.cur.idx
       /\ eng'.cur.rows = eng.cur.rows]_vars

\* a compound unique promotion was refused on a table that has a row and no
\* promoted column
C11_Witness ==
  /\ last.op = "createIndex"
  /\ last.args.unique
  /\ Len(last.args.fields) = 2
  /\ last.err = UniqueMultiField
  /\ eng.cur.rows # EmptyRows
  /\ eng.cur.cols = {}

\* the rows a step stored or rewrote
Written == {id \in DOMAIN eng'.cur.rows :
              id \notin DOMAIN eng.cur.rows \/ eng'.cur.rows[id] # eng.cur.rows[id]}

\* C12: once createIndex(path, {unique: true}) has completed without error,
\* no insert stores a document whose value at the path, not null, is that of
\* a document already stored.
C12_UniqueValuesNeverRepeat ==
  [][last'.op = "insert" =>
       \A p \in last.hist.unique :
         \A id \in DOMAIN eng'.cur.rows \ DOMAIN eng.cur.rows :
           \A j \in DOMAIN eng.cur.rows :
             LET x == JsonExtract(eng'.cur.rows[id].data, p)
             IN x = SqlNull \/ x # JsonExtract(eng.cur.rows[j].data, p)]_vars

\* C13: every check constraint registered so far is enforced, an insert or
\* update storing no row that makes one of them false, and each path has at
\* most one before-insert and one before-update check trigger per expression.
C13_EveryCheckEnforced ==
  [][/\ (last'.op \in {"insert", "update"} /\ last'.err = NoErr) =>
          \A c \in last.hist.checks :
            \A id \in Written :
              JsonExtract(eng'.cur.rows[id].data, c.p) # SqlText(c.expr)
     /\ \A c \in last'.hist.checks :
          \A on \in {"insert", "update"} :
            Cardinality({t \in CheckTriggers(eng'.cur, c.p) :
                           t.on = on /\ t.expr = c.expr}) <= 1]_vars

\* C14: a maintenance run, by the timer or by hand, sends no statement while
\* a transaction is open; a statement of it that fails is followed by a
\* warning and nothing else, the run ends without error and leaves the depth,
\* the flag and the database as they were.
C14_MaintenanceSkipsOpenTransaction ==
  [][last'.op = "maintenance" =>
       /\ (conn.inTransaction \/ eng.txn) => last'.log = <<>>
       /\ last'.err = NoErr
       /\ conn' = conn /\ eng' = eng /\ frames' = frames
       /\ \A i \in 1..Len(last'.log) :
            ~last'.log[i].ok =>
              /\ i + 1 = Len(last'.log)
              /\ last'.log[i + 1].k = Warn]_vars

C14_Witness ==
  /\ last.op = "maintenance"
  /\ conn.inTransaction /\ eng.txn /\ eng.file
  /\ frames # <<>>
  /\ last.log = <<>>

\* C16: a step that finds no handle and leaves one has created it at depth 0
\* with the flag false (an enter sends BEGIN at depth 0 and ends at depth 1,
\* any other operation leaves depth 0 and no transaction) and does not fail
\* for want of a connection; close() leaves no handle, a null status, and
\* throws nothing.
C16_HandleLazyThenFresh ==
  [][/\ (~isConnected(conn) /\ isConnected(conn')) =>
          /\ last'.op \in {"enter", "ensureTable"}
          /\ last'.err = NoErr
          /\ last'.log # <<>> /\ last'.log[1].d = 0
          /\ IF last'.op = "enter"
             THEN /\ last'.log = <<Entry("BEGIN", 0, 0)>>
                  /\ getConnectionStatus(conn') =
                       [connected |-> TRUE, inTransaction |-> TRUE, transactionDepth |-> 1]
             ELSE getConnectionStatus(conn') =
                    [connected |-> TRUE, inTransaction |-> FALSE, transactionDepth |-> 0]
     /\ last'.op = "close" =>
          /\ ~isConnected(conn')
          /\ getConnectionStatus(conn') = Null
          /\ last'.err = NoErr
          /\ ~eng'.txn]_vars

\* a handle created after a close() that found a transaction open
C16_Witness ==
  /\ last.op = "enter"
  /\ \E i \in 1..Len(frames) : frames[i].closed > 0 /\ frames[i].h.inTransaction
  /\ getConnectionStatus(conn) =
       [connected |-> TRUE, inTransaction |-> TRUE, transactionDepth |-> 1]

\* C15: a call of the pooled manager that ends after it acquired a
\* connection has released it exactly once, and if it opened a transaction
\* that it did not commit, then by the release a rollback was attempted;
\* a connection is borrowed only while a call in progress holds it
\* unreleased, so with no call in progress none is borrowed.
C15_ReleasedExactlyOnce ==
  /\ \A p \in Callers :
       (frames[p] # Idle /\ frames[p].pc = "done" /\ frames[p].c # 0) =>
         /\ frames[p].released = 1
         /\ frames[p].opened => frames[p].rollbacks >= 1
  /\ \A i \in 1..MaxPool :
       conn.res[i].borrowed <=>
         \E p \in Callers :
           frames[p] # Idle /\ frames[p].c = i /\ frames[p].released = 0
  /\ (\A p \in Callers : frames[p] = Idle) =>
       \A i \in 1..MaxPool : ~conn.res[i].borrowed

\* a call that opened a transaction, failed, and released its connection
\* while another call was in progress
C15_Witness ==
  \E p, q \in Callers :
    /\ p # q
    /\ frames[p] # Idle /\ frames[p].pc = "done"
    /\ frames[p].opened /\ frames[p].err = UserError /\ frames[p].released = 1
    /\ frames[q] # Idle /\ frames[q].pc \notin {"done"}

\* C17: a saveMany that rejects, a document of the batch failing validation
\* or its statement failing, leaves the rows of the table as they were when
\* it was called, those of the documents before the failing one included,
\* and the transaction depth where it was.
C17_SaveManyAllOrNothing ==
  [][(last'.op = "saveMany" /\ last'.err # NoErr) =>
       /\ eng'.cur.rows = eng.cur.rows
       /\ eng'.committed.rows = eng.committed.rows
       /\ conn'.transactionDepth = conn.transactionDepth]_vars

\* a batch whose first document was stored and whose second one failed
C17_Witness ==
  /\ last.op = "saveMany"
  /\ last.err \in {ValidationFailed, CheckViolated}
  /\ \E i \in 1..Len(last.log) :
       last.log[i].k \in {"INSERT", "UPDATE"} /\ last.log[i].ok

\* C18: a filter with an operator key that the compiler has no case for is
\* rejected by it, with an error that names the key.
C18_UnsupportedOperatorRejected ==
  last.op = "compile" =>
    \A impl \in Compilers :
      \A key \in DOMAIN last.args.filter :
        LET o == last.args.filter[key].op
        IN (o # "" /\ o \notin CasesOf(impl)) =>
             /\ last.res[impl].err = UnsupportedOperator
             /\ last.res[impl].key = o

\* C20: for a field of the body and a literal v, the filters { field: v } and
\* { field: { $eq: v } } both compile and select the same rows.
C20_LiteralIsEq ==
  last.op = "equate" =>
    \A impl \in {"operations", "QueryBuilder"} :
      /\ last.res[impl].lit.err = NoErr
      /\ last.res[impl].eq.err = NoErr
      /\ last.res[impl].lit.rows = last.res[impl].eq.rows

\* the value at a path of a document, Undefined when the path leads nowhere
Get(doc, keys) ==
  IF keys[1] \notin DOMAIN doc THEN Undefined
  ELSE IF Len(keys) = 1 THEN doc[keys[1]]
  ELSE IF doc[keys[1]].k # "object" \/ keys[2] \notin DOMAIN doc[keys[1]].v THEN Undefined
  ELSE doc[keys[1]].v[keys[2]]

\* the paths of a document, one or two keys long
Paths(doc) ==
  {<<f>> : f \in DOMAIN doc}
  \cup UNION {{<<f, g>> : g \in DOMAIN doc[f].v} :
               f \in {h \in DOMAIN doc : doc[h].k = "object"}}

\* the paths that neither lead to keys nor start from it
Beside(doc, keys) ==
  {p \in Paths(doc) : p # keys /\ (Len(p) = Len(keys) \/ p[1] # keys[1])}

\* C19: on the document updated, $set leaves its value at the path, dotted
\* or not, and keeps the fields beside it; $unset leaves nothing at the path;
\* $inc leaves at the path the number that was there, 0 if none was, plus
\* the delta.
C19_OperatorsFollowThePath ==
  last.op = "updateOne" =>
    LET u == last.update
        keys == Split(u.field)
        was == Get(last.before, keys)
    IN CASE u.op = "$set" ->
              /\ Get(last.after, keys) = u.value
              /\ \A p \in Beside(last.before, keys) :
                   Get(last.after, p) = Get(last.before, p)
         [] u.op = "$unset" -> Get(last.after, keys) = Undefined
         [] u.op = "$inc" ->
              was.k \in {"undefined", "number"} =>
                Get(last.after, keys) =
                  Num(IdText((IF was.k = "number" THEN CastReal(was) ELSE 0) + u.delta))

\* C21: of the withTransaction calls in progress at the same time, one that
\* has returned has the rows it wrote committed: they are neither inside
\* the open transaction of another call nor undone by its rollback.
C21_ReturnedCallIsCommitted ==
  \A i \in 1..Len(frames) :
    frames[i].st = "ok" => frames[i].rows \subseteq DOMAIN eng.committed.rows

\* C22: an operator update that throws at one of its per-row UPDATE
\* statements leaves no row modified: the rows are those from before the call.
C22_FailedUpdateModifiesNothing ==
  [][(last'.op = "updateMany" /\ last'.err # NoErr) => eng'.cur.rows = eng.cur.rows]_vars

\* the schema of the table: columns, UNIQUE columns, triggers, indexes
SchemaOf(db) == [cols |-> db.cols, uniq |-> db.uniq, trigs |-> db.trigs, idx |-> db.idx]

\* a path whose promotion is complete: the column, both sync triggers, and
\* in every row the value extracted from the body
BackfillComplete(db, p) ==
  /\ p \in db.cols
  /\ {Trigger("sync", p, "insert"), Trigger("sync", p, "update")} \subseteq db.trigs
  /\ \A id \in DOMAIN db.rows :
       db.rows[id].col[p] = TextAffinity(JsonExtract(db.rows[id].data, p))

\* C23: a promotion (createIndex, checkConstraint) that reports a failure
\* leaves the schema as it was before the call; one that reports none has
\* taken each of its paths to BackfillComplete; and after either no sync or
\* check trigger is on a path that has no column.
C23_PromotionAllOrNothing ==
  [][last'.op \in {"createIndex", "checkConstraint"} =>
       /\ last'.err # NoErr => SchemaOf(eng'.cur) = SchemaOf(eng.cur)
       /\ last'.err = NoErr =>
            \A i \in 1..Len(last'.args.fields) :
              BackfillComplete(eng'.cur, last'.args.fields[i])
       /\ \A t \in eng'.cur.trigs : t.kind \in {"sync", "check"} => t.p \in eng'.cur.cols]_vars

\* C24: after any sequence of promotions, inserts and updates, every row of
\* the table, those stored before the promotion included, holds in each
\* promoted column the value extracted from its body at the path.
C24_PromotedColumnFollowsBody ==
  \A p \in eng.cur.cols :
    \A id \in DOMAIN eng.cur.rows :
      eng.cur.rows[id].col[p] = TextAffinity(JsonExtract(eng.cur.rows[id].data, p))

\* C25: in every state of the manager, also after the engine has refused a
\* statement, the depth is not negative, the flag is true exactly when the
\* depth is above zero, and exactly when the engine has a transaction open.
C25_FlagDepthEngineAgree ==
  /\ conn.transactionDepth >= 0
  /\ conn.inTransaction <=> conn.transactionDepth > 0
  /\ conn.inTransaction <=> eng.txn

\* the statements of a call's log that the engine refused
Refused(log) == {log[i].k : i \in {j \in 1..Len(log) : ~log[j].ok}}

\* C26: when the COMMIT or the RELEASE that withTransaction sends at the end
\* of a call fails, the caller receives that failure and not an error of the
\* cleanup, the depth and the flag are back at their values from before the
\* call, and an outermost call leaves no engine transaction open.
C26_OriginalFailureReported ==
  (last.op = "return" /\ Refused(last.log) \cap {"COMMIT", "RELEASE"} # {}) =>
     /\ last.err = SqliteError
     /\ conn.transactionDepth = last.d0 - 1
     /\ conn.inTransaction = (last.d0 - 1 > 0)
     /\ (last.d0 = 1 => ~eng.txn)

\* C27: a withTransaction call that ends, by returning or by throwing, leaves
\* the depth at the value it had when the call began (one below the depth its
\* beginTransaction left), and whenever no call is in progress the depth is
\* 0, the flag is false and the engine has no transaction and no savepoint.
C27_CallRestoresDepth ==
  /\ [][Len(frames') < Len(frames) =>
          conn'.transactionDepth = frames[Len(frames)].h.transactionDepth - 1]_vars
  /\ [](frames = <<>> =>
          /\ conn.transactionDepth = 0
          /\ ~conn.inTransaction
          /\ ~eng.txn
          /\ eng.sps = <<>>)

\* C28: every RELEASE SAVEPOINT and ROLLBACK TO SAVEPOINT of a call names, by
\* the depth it is sent at, a savepoint that exists, and the engine's stack
\* holds exactly the savepoints of the nested levels still open: one for each
\* depth above the first, none of a level that has ended.
C28_SavepointsMatchOpenLevels ==
  /\ \A i \in 1..Len(last.log) :
       last.log[i].k \in {"RELEASE", "ROLLBACK TO"} =>
         last.log[i].ok /\ last.log[i].n = last.log[i].d
  /\ Len(eng.sps) = (IF conn.transactionDepth > 0
                     THEN conn.transactionDepth - 1 ELSE 0)
  /\ \A i \in 1..Len(eng.sps) : eng.sps[i].name = i

\* C29: in the pooled manager a connection in the pool has its flag cleared,
\* a connection is handed to a borrower only while its flag is clear and its
\* database has no transaction open, and the beginTransaction of a
\* withTransaction call succeeds.
C29_BorrowedConnectionIsClean ==
  [][/\ \A i \in 1..MaxPool : ~conn'.res[i].borrowed => ~conn'.res[i].inTransaction
     /\ \A p \in Callers :
          /\ (frames[p] = Idle /\ frames'[p] # Idle /\ frames'[p].c # 0) =>
                /\ ~conn.res[frames'[p].c].inTransaction
                /\ DbOf(eng, frames'[p].c) \notin eng.txn
          /\ (frames[p] # Idle /\ frames[p].pc = "begin" /\ frames'[p] # frames[p]) =>
                frames'[p].pc = "fn"]_vars

\* C30: close() called while a transaction is open, at any depth, leaves no
\* handle and no engine transaction and discards what the transaction wrote
\* (the database is as it was committed); a withTransaction call that was in
\* progress then ends with an error and changes nothing; and the operation
\* that next creates a handle starts at depth 0 with the flag false.
C30_CloseDiscardsOpenTransaction ==
  [][/\ (last'.op = "close" /\ conn.inTransaction) =>
          /\ conn' = NotConnected
          /\ ~eng'.txn /\ eng'.sps = <<>>
          /\ eng'.cur = eng'.committed
          /\ eng.file => eng'.committed = eng.committed
     /\ (frames # <<>> /\ Len(frames') < Len(frames)
           /\ frames[Len(frames)].closed > 0) =>
          /\ last'.op \in {"return", "fail"}
          /\ last'.err # NoErr
          /\ conn' = conn /\ eng' = eng
     /\ (~conn.connected /\ conn'.connected
           /\ \E i \in 1..Len(frames) : frames[i].closed > 0) =>
          /\ last'.log # <<>> /\ last'.log[1].d = 0
          /\ conn'.transactionDepth = (IF last'.op = "enter" THEN 1 ELSE 0)
          /\ conn'.inTransaction = (last'.op = "enter")]_vars

\* a callback that returns at depth 2 on a handle that close() has closed,
\* after an operation has started on a new handle: its withTransaction throws
C30_Witness ==
  /\ last.op = "return"
  /\ last.d0 = 2
  /\ last.err # NoErr
  /\ frames # <<>> /\ frames[Len(frames)].closed > 0
  /\ conn.connected /\ conn.transactionDepth = 0 /\ ~conn.inTransaction

====
